---- MODULE Spec2Model ----
(***************************************************************************)
(* Style resolution and document assembly of legal-doc-ai:                 *)
(*   src/src/style_extractor.py   extract_styles_from_template,            *)
(*                                load_style_json, get_default_styles      *)
(*   src/src/document_builder.py  apply_style_to_paragraph,                *)
(*                                add_signature_section,                   *)
(*                                build_document_from_json_content         *)
(*                                                                         *)
(* Representation.                                                         *)
(*  - A Python dict is a function whose DOMAIN is its key set; a key that  *)
(*    is not set is a key outside the DOMAIN.                              *)
(*  - A text is a sequence of lines and a line is a sequence of tokens     *)
(*    (words, labels, one blank), so that split, containment, replace and  *)
(*    strip are computed and not assumed.  "" is the text of one empty     *)
(*    line.                                                                *)
(*  - Line spacing is held in tenths (1.0 is 10, 1.5 is 15); sizes and     *)
(*    indents are whole points.                                            *)
(*  - A file is a record with a kind: absent, corrupt (bytes no parser     *)
(*    accepts), docx (header, footer, body, style definitions) or json     *)
(*    (the encoded value).                                                 *)
(*  - Formatting set on a run or a paragraph itself is in its dict; what a *)
(*    named style defines is in the document's styles and is inherited,    *)
(*    so run.font.name and para.alignment do not show it.                  *)
(***************************************************************************)
EXTENDS Integers, Sequences, FiniteSets, TLC

VARIABLES
    fs,          \* the file system: path -> file
    pc,          \* per caller: the position of its call
    call,        \* per caller: the arguments of its call
    doc,         \* per caller: the Document object being built
    style_json,  \* per caller: the local style_json (NoneValue until resolved)
    exc,         \* per caller: the exception that left the call, or "none"
    source,      \* per caller: where style_json was taken from
    fs0          \* per caller: the file system when the call was made

vars == <<fs, pc, call, doc, style_json, exc, source, fs0>>

(***************************************************************************)
(* Generic helpers                                                         *)
(***************************************************************************)
Range(s) == {s[i] : i \in DOMAIN s}

\* dict.get(k, dflt)
Get(d, k, dflt) == IF k \in DOMAIN d THEN d[k] ELSE dflt

\* d[k] = v on a dict (a new dict: callers that must not alias copy first)
DictSet(d, k, v) == (k :> v) @@ d

EmptyDict == [k \in {} |-> 0]

\* None, for a variable that holds either None or a dict
NoneValue == [none |-> TRUE]

\* Python truthiness of a dict-or-None: None and {} are falsy
Truthy(d) == d # NoneValue /\ DOMAIN d # {}

(***************************************************************************)
(* Texts                                                                   *)
(***************************************************************************)
SP == " "
DP_LABEL == "Disclosing Party:"
RP_LABEL == "Receiving Party:"
RULE == "_____________________________"
DATE_LINE == "Date: _________________"

\* a one-line text of one token, and the empty text
T(tok) == <<<<tok>>>>
EmptyText == << <<>> >>

\* str.split('\n'): the text is held as its lines
SplitLines(text) == text

\* `needle in line` for a label token
Contains(line, needle) == needle \in Range(line)

\* line.replace(needle, ""): every occurrence is removed
Replace(line, needle) == SelectSeq(line, LAMBDA tok : tok # needle)

\* str.strip(): leading and trailing blanks are removed
RECURSIVE LStrip(_)
LStrip(line) ==
    IF line # <<>> /\ Head(line) = SP THEN LStrip(Tail(line)) ELSE line

RECURSIVE RStrip(_)
RStrip(line) ==
    IF line # <<>> /\ line[Len(line)] = SP
    THEN RStrip(SubSeq(line, 1, Len(line) - 1))
    ELSE line

Strip(line) == RStrip(LStrip(line))

(***************************************************************************)
(* Styles                                                                  *)
(***************************************************************************)
StyleFields ==
    {"font", "size", "bold", "italic", "underline", "align", "spacing",
     "indent_left", "indent_right"}

EssentialNames == {"Heading 1", "Heading 2", "Normal", "Paragraph", "Signature"}

\* style_extractor.get_default_styles
get_default_styles ==
    ("Heading 1" :> [font |-> "Calibri Light", size |-> 16, bold |-> TRUE,
                     italic |-> FALSE, align |-> "center", spacing |-> 10])
 @@ ("Heading 2" :> [font |-> "Calibri", size |-> 14, bold |-> TRUE,
                     italic |-> FALSE, align |-> "left", spacing |-> 10])
 @@ ("Normal" :> [font |-> "Times New Roman", size |-> 12, bold |-> FALSE,
                  italic |-> FALSE, align |-> "justify", spacing |-> 10])
 @@ ("Paragraph" :> [font |-> "Times New Roman", size |-> 12, bold |-> FALSE,
                     italic |-> FALSE, align |-> "justify", spacing |-> 10])
 @@ ("Signature" :> [font |-> "Times New Roman", size |-> 12, bold |-> FALSE,
                     italic |-> FALSE, align |-> "left", spacing |-> 15])

\* style_extractor.ALIGNMENT_MAP, read with .get(para.alignment, "left");
\* a paragraph without alignment has no "alignment" key (None)
ALIGNMENT_MAP ==
    ("LEFT" :> "left") @@ ("CENTER" :> "center") @@ ("RIGHT" :> "right")
 @@ ("JUSTIFY" :> "justify")

\* document_builder.ALIGN_MAP, the alignment strings it knows
ALIGN_MAP ==
    ("left" :> "LEFT") @@ ("center" :> "CENTER") @@ ("right" :> "RIGHT")
 @@ ("justify" :> "JUSTIFY")

(***************************************************************************)
(* Documents.  A paragraph is its text, its style name, its runs (each the *)
(* dict of the font attributes that are set on it) and the dict of the     *)
(* paragraph-format attributes that are set; src names what put it there   *)
(* ("template", "title" or the section name).                              *)
(***************************************************************************)
Absent == [kind |-> "absent"]
Corrupt == [kind |-> "corrupt"]

DocxFile(header, footer, body, styles) ==
    [kind |-> "docx", header |-> header, footer |-> footer, body |-> body,
     styles |-> styles]

\* json.dump(value, f) into a file opened with "w"
JsonFile(value) == [kind |-> "json", value |-> value]

\* os.path.exists(path)
Exists(fsys, path) == fsys[path].kind # "absent"

\* Document(path) succeeds on a .docx package only
Opens(fsys, path) == fsys[path].kind = "docx"

\* json.load(f) succeeds on JSON text only
Parses(file) == file.kind = "json"

\* Document.add_paragraph(text): a paragraph with one run when text is not ""
add_paragraph(text, src) ==
    [kind |-> "para", text |-> text, style |-> "Normal",
     runs |-> IF text = EmptyText THEN <<>> ELSE <<EmptyDict>>,
     pf |-> EmptyDict, src |-> src]

(***************************************************************************)
(* style_extractor.extract_styles_from_template                            *)
(***************************************************************************)
\* faulty variant: only the attributes that are set are captured
CaptureStyle_SetOnly(para) ==
    LET font == IF para.runs # <<>> THEN para.runs[1] ELSE EmptyDict
        pf == para.pf
    IN  [k \in {"font"}
               \cup ({"size", "bold", "italic", "underline"} \cap DOMAIN font)
               \cup (IF "alignment" \in DOMAIN pf THEN {"align"} ELSE {})
               \cup (IF "line_spacing" \in DOMAIN pf THEN {"spacing"} ELSE {})
               \cup (IF "left_indent" \in DOMAIN pf THEN {"indent_left"} ELSE {})
               \cup (IF "right_indent" \in DOMAIN pf THEN {"indent_right"} ELSE {}) |->
            CASE k = "font" -> Get(font, "name", "Default")
              [] k = "align" -> Get(ALIGNMENT_MAP, pf.alignment, "left")
              [] k = "spacing" -> pf.line_spacing
              [] k = "indent_left" -> pf.left_indent
              [] k = "indent_right" -> pf.right_indent
              [] OTHER -> font[k]]

\* lines 50-78: the entry captured from one paragraph
CaptureStyle(para) ==
    LET font == IF para.runs # <<>> THEN para.runs[1] ELSE EmptyDict
        pf == para.pf
        font_name ==
            IF para.runs # <<>> /\ "name" \in DOMAIN font /\ font.name # ""
            THEN font.name ELSE "Default"
        font_size ==
            IF para.runs # <<>> /\ "size" \in DOMAIN font /\ font.size # 0
            THEN font.size ELSE 12
        bold ==
            IF para.runs # <<>> /\ "bold" \in DOMAIN font
            THEN font.bold ELSE FALSE
        italic ==
            IF para.runs # <<>> /\ "italic" \in DOMAIN font
            THEN font.italic ELSE FALSE
        underline ==
            IF para.runs # <<>> /\ "underline" \in DOMAIN font
            THEN font.underline ELSE FALSE
        alignment ==
            IF "alignment" \in DOMAIN pf /\ pf.alignment \in DOMAIN ALIGNMENT_MAP
            THEN ALIGNMENT_MAP[pf.alignment] ELSE "left"
        spacing ==
            IF "line_spacing" \in DOMAIN pf /\ pf.line_spacing # 0
            THEN pf.line_spacing ELSE 10
        left_indent ==
            IF "left_indent" \in DOMAIN pf /\ pf.left_indent # 0
            THEN pf.left_indent ELSE 0
        right_indent ==
            IF "right_indent" \in DOMAIN pf /\ pf.right_indent # 0
            THEN pf.right_indent ELSE 0
    IN  [font |-> font_name, size |-> font_size, bold |-> bold,
         italic |-> italic, underline |-> underline, align |-> alignment,
         spacing |-> spacing, indent_left |-> left_indent,
         indent_right |-> right_indent]

\* faulty variant: a later paragraph of a style name overwrites the entry
RECURSIVE ScanParagraphs_LastWins(_, _)
ScanParagraphs_LastWins(paras, style_data) ==
    IF paras = <<>> THEN style_data
    ELSE ScanParagraphs_LastWins(
             Tail(paras),
             [n \in DOMAIN style_data \cup {Head(paras).style} |->
                 IF n = Head(paras).style THEN CaptureStyle(Head(paras))
                 ELSE style_data[n]])

\* lines 43-78: the scan of doc.paragraphs, skipping a style name already seen
RECURSIVE ScanParagraphs(_, _)
ScanParagraphs(paras, style_data) ==
    IF paras = <<>> THEN style_data
    ELSE LET para == Head(paras)
         IN  IF para.style \in DOMAIN style_data
             THEN ScanParagraphs(Tail(paras), style_data)
             ELSE ScanParagraphs(Tail(paras),
                                 DictSet(style_data, para.style, CaptureStyle(para)))

\* lines 83-88: every essential name the scan did not capture gets the default
FillEssentials(style_data) ==
    [n \in DOMAIN style_data \cup DOMAIN get_default_styles |->
        IF n \in DOMAIN style_data THEN style_data[n] ELSE get_default_styles[n]]

\* doc.paragraphs: the paragraphs of the body (a table is not one)
Paragraphs(body) == SelectSeq(body, LAMBDA e : e.kind = "para")

\* the profile extract_styles_from_template writes for a readable template
ExtractedProfile(file) ==
    FillEssentials(ScanParagraphs(Paragraphs(file.body), EmptyDict))

\* line 91, open(save_path, "w"): the file is created, or emptied, before
\* anything is written; an empty file is one json.load does not accept
OpenForWriting(fsys, save_path) == [fsys EXCEPT ![save_path] = Corrupt]

\* line 92 and the close of the with block: the profile goes to the file the
\* handle of line 91 is on. With no other writer that file is the empty one of
\* line 91. A file unlinked since then is at no path any more (POSIX), so the
\* path stays absent; over what another writer put there since then the text
\* is laid from the file's start, which gives the profile or, when the other
\* text was longer, a text no JSON parser accepts
DumpOutcomes(fsys, save_path, style_data) ==
    IF ~Exists(fsys, save_path) THEN {fsys}
    ELSE IF Parses(fsys[save_path]) /\ fsys[save_path].value # style_data
    THEN {[fsys EXCEPT ![save_path] = JsonFile(style_data)],
          [fsys EXCEPT ![save_path] = Corrupt]}
    ELSE {[fsys EXCEPT ![save_path] = JsonFile(style_data)]}

\* the whole call with no other caller: raised, or the file system with
\* save_path written
extract_styles_from_template(fsys, template_path, save_path) ==
    IF ~Opens(fsys, template_path)
    THEN [raised |-> TRUE, fs |-> fsys]
    ELSE [raised |-> FALSE,
          fs |-> [fsys EXCEPT ![save_path] =
                     JsonFile(ExtractedProfile(fsys[template_path]))]]

(***************************************************************************)
(* style_extractor.load_style_json                                         *)
(***************************************************************************)
\* doc_type.lower()
Lower(doc_type) ==
    CASE doc_type = "NDA" -> "nda"
      [] doc_type = "Offer_Letter" -> "offer_letter"
      [] doc_type = "Contract" -> "contract"
      [] doc_type = "MOU" -> "mou"
      [] doc_type = "IP_Agreement" -> "ip_agreement"

\* os.path.join(STYLE_DIR, f"{doc_type.lower()}_style.json")
StylePath(doc_type) ==
    CASE Lower(doc_type) = "nda" -> "styles/nda_style.json"
      [] Lower(doc_type) = "offer_letter" -> "styles/offer_letter_style.json"
      [] Lower(doc_type) = "contract" -> "styles/contract_style.json"
      [] Lower(doc_type) = "mou" -> "styles/mou_style.json"
      [] Lower(doc_type) = "ip_agreement" -> "styles/ip_agreement_style.json"

\* the style file when there is one (json.load may raise), else the defaults
load_style_json(fsys, doc_type) ==
    LET style_path == StylePath(doc_type)
    IN  IF Exists(fsys, style_path)
        THEN IF Parses(fsys[style_path])
             THEN [raised |-> FALSE, value |-> fsys[style_path].value,
                   source |-> "style_file"]
             ELSE [raised |-> TRUE, value |-> NoneValue, source |-> "none"]
        ELSE [raised |-> FALSE, value |-> get_default_styles,
              source |-> "default"]

(***************************************************************************)
(* document_builder.apply_style_to_paragraph                               *)
(***************************************************************************)
apply_style_to_paragraph(paragraph, style_props) ==
    LET run == IF paragraph.runs # <<>> THEN paragraph.runs[1] ELSE EmptyDict
        a == Get(style_props, "align", "left")
        alignment == IF a \in DOMAIN ALIGN_MAP THEN ALIGN_MAP[a] ELSE "LEFT"
        styled ==
            [k \in DOMAIN run \cup {"name", "size", "bold", "italic", "underline"} |->
                CASE k = "name" -> Get(style_props, "font", "Times New Roman")
                  [] k = "size" -> Get(style_props, "size", 12)
                  [] k = "bold" -> Get(style_props, "bold", FALSE)
                  [] k = "italic" -> Get(style_props, "italic", FALSE)
                  [] k = "underline" -> Get(style_props, "underline", FALSE)
                  [] OTHER -> run[k]]
        format ==
            [k \in DOMAIN paragraph.pf
                   \cup {"alignment", "line_spacing", "left_indent", "right_indent"} |->
                CASE k = "alignment" -> alignment
                  [] k = "line_spacing" -> Get(style_props, "spacing", 10)
                  [] k = "left_indent" -> Get(style_props, "indent_left", 0)
                  [] k = "right_indent" -> Get(style_props, "indent_right", 0)
                  [] OTHER -> paragraph.pf[k]]
    IN  [paragraph EXCEPT
            !.runs = IF paragraph.runs # <<>>
                     THEN <<styled>> \o Tail(paragraph.runs)
                     ELSE <<styled>>,
            !.pf = format]

(***************************************************************************)
(* document_builder.add_signature_section and its two layouts              *)
(***************************************************************************)
\* lines 64-71: the last line carrying a label decides that party
RECURSIVE ParseParties(_, _, _)
ParseParties(lines, disclosing_party, receiving_party) ==
    IF lines = <<>>
    THEN [disclosing_party |-> disclosing_party,
          receiving_party |-> receiving_party]
    ELSE LET line == Head(lines)
         IN  IF Contains(line, DP_LABEL)
             THEN ParseParties(Tail(lines), Strip(Replace(line, DP_LABEL)),
                               receiving_party)
             ELSE IF Contains(line, RP_LABEL)
             THEN ParseParties(Tail(lines), disclosing_party,
                               Strip(Replace(line, RP_LABEL)))
             ELSE ParseParties(Tail(lines), disclosing_party, receiving_party)

\* faulty variant: a party without a name gets no block
PartyBlock_NamedOnly(label, party) ==
    IF party = <<>> THEN EmptyText ELSE <<<<label>>, party, <<>>, <<RULE>>>>

\* f"{label}\n{party}\n\n_____________________________"
PartyBlock(label, party) == <<<<label>>, party, <<>>, <<RULE>>>>

\* lines 83-91
add_nda_signature(body, disclosing_party, signature_style, src) ==
    LET disclosing_para ==
            apply_style_to_paragraph(
                add_paragraph(PartyBlock(DP_LABEL, disclosing_party), src),
                signature_style)
        date_para ==
            apply_style_to_paragraph(add_paragraph(T(DATE_LINE), src),
                                     signature_style)
    IN  body \o <<disclosing_para, date_para>>

BorderNames == {"top", "left", "bottom", "right"}

\* doc.add_table(rows, cols): every cell holds one empty paragraph
add_table(rows, cols, src) ==
    [kind |-> "table", src |-> src,
     widths |-> [c \in 0..(cols - 1) |-> "auto"],
     cells |-> [rc \in (0..(rows - 1)) \X (0..(cols - 1)) |->
                   [borders |-> EmptyDict, span |-> 1,
                    paras |-> <<add_paragraph(EmptyText, src)>>]]]

\* lines 107-121: w:tcBorders with the four sides nil, and the style applied
\* to the paragraphs the cell holds at that moment
SuppressBordersAndStyle(table, signature_style) ==
    [table EXCEPT !.cells =
        [rc \in DOMAIN table.cells |->
            [table.cells[rc] EXCEPT
                !.borders = [b \in BorderNames |-> "nil"],
                !.paras = [i \in DOMAIN table.cells[rc].paras |->
                              apply_style_to_paragraph(table.cells[rc].paras[i],
                                                       signature_style)]]]]

\* lines 124-125
SetColumnWidths(table) ==
    [table EXCEPT !.widths = [c \in DOMAIN table.widths |-> "3in"]]

\* faulty variant: the assignment clears the cell's properties too
SetCellText_DropsBorders(table, rc, text) ==
    [table EXCEPT !.cells[rc].paras = <<add_paragraph(text, table.src)>>,
                  !.cells[rc].borders = EmptyDict]

\* cell.text = text: the cell's content is cleared (its tcPr, so its borders,
\* stays) and one new paragraph with one run holds the text
SetCellText(table, rc, text) ==
    [table EXCEPT !.cells[rc].paras = <<add_paragraph(text, table.src)>>]

\* cell(r, 0).merge(cell(r, 1)): the left cell spans both columns, takes the
\* right cell's content unless that is one paragraph without runs, and the
\* right cell is removed
MergeRow(table, r) ==
    LET left == table.cells[<<r, 0>>]
        right == table.cells[<<r, 1>>]
        right_empty == Len(right.paras) = 1 /\ right.paras[1].runs = <<>>
        kept ==
            IF left.paras[Len(left.paras)].runs = <<>>
            THEN SubSeq(left.paras, 1, Len(left.paras) - 1)
            ELSE left.paras
        merged ==
            [left EXCEPT !.span = 2,
                         !.paras = IF right_empty THEN left.paras
                                   ELSE kept \o right.paras]
    IN  [table EXCEPT !.cells =
            [rc \in DOMAIN table.cells \ {<<r, 1>>} |->
                IF rc = <<r, 0>> THEN merged ELSE table.cells[rc]]]

\* lines 94-138
add_contract_signature(body, disclosing_party, receiving_party, signature_style, src) ==
    LET t1 == SuppressBordersAndStyle(add_table(2, 2, src), signature_style)
        t2 == SetColumnWidths(t1)
        t3 == SetCellText(t2, <<0, 0>>, PartyBlock(DP_LABEL, disclosing_party))
        t4 == SetCellText(t3, <<0, 1>>, PartyBlock(RP_LABEL, receiving_party))
        t5 == MergeRow(t4, 1)
        t6 == SetCellText(t5, <<1, 0>>, T(DATE_LINE))
    IN  body \o <<t6>>

\* doc_type.upper()
Upper(doc_type) ==
    CASE doc_type = "NDA" -> "NDA"
      [] doc_type = "Offer_Letter" -> "OFFER_LETTER"
      [] doc_type = "Contract" -> "CONTRACT"
      [] doc_type = "MOU" -> "MOU"
      [] doc_type = "IP_Agreement" -> "IP_AGREEMENT"

\* faulty variant: MOU is given the single-party layout too
IsNDA_OrMOU(doc_type) == Upper(doc_type) \in {"NDA", "MOU"}

\* doc_type.upper() == "NDA"
IsNDA(doc_type) == Upper(doc_type) = "NDA"

\* lines 58-80
add_signature_section(body, signature_content, styles, doc_type, src) ==
    LET parsed == ParseParties(SplitLines(signature_content), <<>>, <<>>)
        signature_style == Get(styles, "Signature", Get(styles, "Normal", EmptyDict))
    IN  IF IsNDA(doc_type)
        THEN add_nda_signature(body, parsed.disclosing_party, signature_style, src)
        ELSE add_contract_signature(body, parsed.disclosing_party,
                                    parsed.receiving_party, signature_style, src)

(***************************************************************************)
(* document_builder.build_document_from_json_content: the assembly         *)
(***************************************************************************)
\* faulty variant: a name the profile lacks gets the literal {} at once
StyleFor_NoFallback(styles, name) == Get(styles, name, EmptyDict)

\* style_json.get(name, style_json.get("Normal", {}))
StyleFor(styles, name) == Get(styles, name, Get(styles, "Normal", EmptyDict))

\* json_content["sections"] of a call, the empty mapping when the key is absent
SectionsOfCall(frame) == Get(frame.json_content, "sections", <<>>)

\* lines 219-225
AddTitle(body, json_content, styles) ==
    IF "title" \in DOMAIN json_content
    THEN body \o <<apply_style_to_paragraph(
                      add_paragraph(json_content.title, "title"),
                      StyleFor(styles, "Heading 1"))>>
    ELSE body

\* faulty variant: any section whose content is the title is taken for a duplicate
IsDuplicateTitle_AnyType(json_content, section_type, section_content) ==
    /\ "title" \in DOMAIN json_content
    /\ section_content = Get(json_content, "title", EmptyText)

\* line 234: the section repeats the title that was added
IsDuplicateTitle(json_content, section_type, section_content) ==
    /\ "title" \in DOMAIN json_content
    /\ section_type = "Heading 1"
    /\ section_content = Get(json_content, "title", EmptyText)

\* faulty variant: the stored alignment is kept
SectionStyle_NoForce(styles, section_type) == StyleFor(styles, section_type)

\* lines 245-250: the looked-up entry, a copy of it with align forced for
\* the two body types
SectionStyle(styles, section_type) ==
    LET style_props == StyleFor(styles, section_type)
    IN  IF section_type \in {"Paragraph", "Normal"}
        THEN DictSet(style_props, "align", "justify")
        ELSE style_props

\* lines 230-252: one turn of the loop over json_content["sections"].items()
AddSection(body, entry, json_content, styles, doc_type) ==
    LET section_type == Get(entry.data, "type", "Paragraph")
        section_content == Get(entry.data, "content", EmptyText)
    IN  IF IsDuplicateTitle(json_content, section_type, section_content)
        THEN body
        ELSE IF section_type = "Signature"
        THEN add_signature_section(body, section_content, styles, doc_type,
                                   entry.name)
        ELSE body \o <<apply_style_to_paragraph(
                          add_paragraph(section_content, entry.name),
                          SectionStyle(styles, section_type))>>

\* faulty variant: the mapping is walked from its last entry to its first
RECURSIVE AddSections_Reversed(_, _, _, _, _)
AddSections_Reversed(body, sections, json_content, styles, doc_type) ==
    IF sections = <<>> THEN body
    ELSE AddSections_Reversed(
             AddSection(body, sections[Len(sections)], json_content, styles, doc_type),
             SubSeq(sections, 1, Len(sections) - 1), json_content, styles, doc_type)

\* lines 228-252: the sections in the order of the mapping
RECURSIVE AddSections(_, _, _, _, _)
AddSections(body, sections, json_content, styles, doc_type) ==
    IF sections = <<>> THEN body
    ELSE AddSections(AddSection(body, Head(sections), json_content, styles, doc_type),
                     Tail(sections), json_content, styles, doc_type)

\* a JSON value that is not an object, where the code expects a dict, is held
\* as a record whose py field names its Python type (str, list, NoneType)
NotObject(pytype) == [py |-> pytype]

\* the value has the dict methods (.get)
IsObject(value) == "py" \notin DOMAIN value

\* a JSON value that is not an object, where the code expects the sections
\* mapping, is held as a one-element sequence of its NotObject record
NotMapping(pytype) == <<NotObject(pytype)>>

\* the value has .items()
IsMapping(value) == \A i \in DOMAIN value : IsObject(value[i])

\* lines 229-230: json_content["sections"].items() on a value that is not a
\* mapping, or section_data.get on an entry that is not a dict, raises
\* AttributeError; nothing else in lines 219-252 looks at the shape
AssemblyRaises(json_content) ==
    /\ "sections" \in DOMAIN json_content
    /\ \/ ~IsMapping(json_content.sections)
       \/ \E i \in DOMAIN json_content.sections :
              ~IsObject(json_content.sections[i].data)

\* the sections added before section_data.get raises on an entry that is
\* not a dict
RECURSIVE AddSectionsUntilRaise(_, _, _, _, _)
AddSectionsUntilRaise(body, sections, json_content, styles, doc_type) ==
    IF sections = <<>> \/ ~IsObject(Head(sections).data) THEN body
    ELSE AddSectionsUntilRaise(
             AddSection(body, Head(sections), json_content, styles, doc_type),
             Tail(sections), json_content, styles, doc_type)

\* the body the document holds when lines 229-230 raise: the title of line
\* 222 and the sections walked before the raise are in it
AssembledBeforeRaise(body, json_content, styles, doc_type) ==
    IF ~IsMapping(json_content.sections)
    THEN AddTitle(body, json_content, styles)
    ELSE AddSectionsUntilRaise(AddTitle(body, json_content, styles),
                               json_content.sections, json_content, styles,
                               doc_type)

\* lines 219-252
Assemble(body, json_content, styles, doc_type) ==
    AddSections(AddTitle(body, json_content, styles),
                Get(json_content, "sections", <<>>),
                json_content, styles, doc_type)

\* faulty variant: the template's body is not cleared
ClearBody_Keep(document) == document

\* doc._body.clear_content(): the body is emptied, header and footer stay
ClearBody(document) == [document EXCEPT !.body = <<>>]

(***************************************************************************)
(* Bounds and the inputs drawn from them                                   *)
(***************************************************************************)
\* the longest "sections" mapping of a content document
MaxSections == 2

Callers == {1, 2}

\* config.SUPPORTED_DOC_TYPES
DocTypes == {"NDA", "Offer_Letter", "Contract", "MOU", "IP_Agreement"}

\* reference_doc_path=None
NoRef == ""

\* os.path.join(WORKING_DIR, "temp_reference_styles.json")
TempStylePath == "working/temp_reference_styles.json"

OutputNames == {"out1.docx", "out2.docx"}

\* os.path.join(DOC_OUTPUT_DIR, output_filename)
OutPath(output_filename) ==
    CASE output_filename = "out1.docx" -> "output/docs/out1.docx"
      [] output_filename = "out2.docx" -> "output/docs/out2.docx"

\* a paragraph as a template holds it
TemplatePara(style, text, font, format) ==
    [kind |-> "para", text |-> text, style |-> style, runs |-> <<font>>,
     pf |-> format, src |-> "template"]

\* create_test_user_template: header, footer, two paragraphs without
\* formatting of their own (the default style, renamed and renamed back to
\* "Normal"), and the Heading 1 style defined as Arial 18
UserTemplate ==
    DocxFile("USER TEMPLATE HEADER - CONFIDENTIAL", "User Template Footer - Page 1",
        <<TemplatePara("Normal", T("Sample User Template Title"),
                       EmptyDict, EmptyDict),
          TemplatePara("Normal", T("This is sample content in the user template."),
                       EmptyDict, EmptyDict)>>,
        ("Heading 1" :> [name |-> "Arial", size |-> 18]))

\* a reference whose only style is a custom "Normal" (Georgia, 11pt)
GeorgiaTemplate ==
    DocxFile("Georgia header", "Georgia footer",
        <<TemplatePara("Normal", T("Body text"),
                       [name |-> "Georgia", size |-> 11],
                       [alignment |-> "RIGHT"])>>,
        EmptyDict)

\* Document(): no header text, no footer text, an empty body
BlankTemplate == DocxFile("", "", <<>>, EmptyDict)

\* an artifact left at an output path by an earlier run
OldArtifact == DocxFile("old header", "old footer", <<>>, EmptyDict)

\* a style file written by hand: no "Normal", no "Heading 1", few fields
HandStyles ==
    ("Paragraph" :> [font |-> "Arial", size |-> 10, align |-> "left"])
 @@ ("Signature" :> [font |-> "Arial", align |-> "diagonal"])

\* a style file written by hand that defines "Normal" only
NormalOnlyStyles ==
    ("Normal" :> [font |-> "Verdana", size |-> 9, italic |-> TRUE, align |-> "right"])

TemplatePaths == {"user.docx", "blank.docx", "missing.docx", "corrupt.docx"}
ReferencePaths == {NoRef, "user.docx", "georgia.docx", "missing.docx", "corrupt.docx"}

Paths ==
    TemplatePaths \cup (ReferencePaths \ {NoRef}) \cup {TempStylePath}
    \cup {StylePath(d) : d \in DocTypes} \cup {OutPath(n) : n \in OutputNames}

\* what the style store holds for NDA and for Contract: nothing, a file no
\* JSON parser accepts, the file register_new_template writes for the
\* Georgia reference, or one of the hand-written files
StoreFiles ==
    {Absent, Corrupt, JsonFile(ExtractedProfile(GeorgiaTemplate)),
     JsonFile(HandStyles), JsonFile(NormalOnlyStyles)}

InitialFs(store) ==
    [path \in Paths |->
        CASE path = "user.docx" -> UserTemplate
          [] path = "georgia.docx" -> GeorgiaTemplate
          [] path = "blank.docx" -> BlankTemplate
          [] path = "corrupt.docx" -> Corrupt
          [] path \in {StylePath("NDA"), StylePath("Contract")} -> store
          [] path = OutPath("out2.docx") -> OldArtifact
          [] OTHER -> Absent]

\* the sections a content document is made of
SectionPool ==
    {[name |-> "intro", data |-> [type |-> "Paragraph", content |-> T("Hello")]],
     [name |-> "title_again", data |-> [type |-> "Heading 1", content |-> T("NDA")]],
     [name |-> "main_heading", data |-> [type |-> "Heading 1", content |-> T("Main")]],
     [name |-> "body", data |-> [type |-> "Normal", content |-> T("Body")]],
     [name |-> "title_text", data |-> [type |-> "Paragraph", content |-> T("NDA")]],
     [name |-> "clause", data |-> [type |-> "Clause", content |-> T("Terms")]],
     [name |-> "bare", data |-> EmptyDict],
     [name |-> "signatures",
      data |-> [type |-> "Signature",
                content |-> <<<<DP_LABEL, SP, "Alice">>, <<RP_LABEL, SP, "Bob">>>>]]}

\* the mappings of at most MaxSections sections (a mapping has no key twice)
SectionSeqs ==
    UNION {{s \in [1..n -> SectionPool] :
               \A i, j \in 1..n : i # j => s[i].name # s[j].name} :
           n \in 0..MaxSections}

Titles == {T("NDA")}

Contents ==
    {[sections |-> s] : s \in SectionSeqs}
    \cup {[title |-> t, sections |-> s] : t \in Titles, s \in SectionSeqs}
    \cup {[title |-> t] : t \in Titles}

(***************************************************************************)
(* The state machine: one call of build_document_from_json_content per     *)
(* caller, a step at each access to the file system                        *)
(***************************************************************************)
NoCall == [none |-> TRUE]

InitCallers ==
    /\ pc = [p \in Callers |-> "idle"]
    /\ call = [p \in Callers |-> NoCall]
    /\ doc = [p \in Callers |-> NoneValue]
    /\ style_json = [p \in Callers |-> NoneValue]
    /\ exc = [p \in Callers |-> "none"]
    /\ source = [p \in Callers |-> "none"]

Init ==
    /\ fs \in {InitialFs(store) : store \in StoreFiles}
    /\ fs0 = [p \in Callers |-> fs]
    /\ InitCallers

\* the call is made with its five arguments
Call(p) ==
    /\ pc[p] = "idle"
    /\ \E tp \in TemplatePaths, dt \in DocTypes, jc \in Contents,
          fn \in OutputNames, rp \in ReferencePaths :
          call' = [call EXCEPT ![p] =
                      [template_path |-> tp, doc_type |-> dt, json_content |-> jc,
                       output_filename |-> fn, reference_doc_path |-> rp]]
    /\ pc' = [pc EXCEPT ![p] = "open_template"]
    /\ fs0' = [fs0 EXCEPT ![p] = fs]
    /\ UNCHANGED <<fs, doc, style_json, exc, source>>

\* faulty variant: the reference styles are extracted before the template is checked
OpenTemplate_CheckLate(p) ==
    /\ pc[p] = "open_template"
    /\ LET rp == call[p].reference_doc_path
           r == extract_styles_from_template(fs, rp, TempStylePath)
       IN  fs' = IF rp # NoRef /\ Exists(fs, rp) THEN r.fs ELSE fs
    /\ IF ~Opens(fs, call[p].template_path)
       THEN /\ pc' = [pc EXCEPT ![p] = "raised"]
            /\ exc' = [exc EXCEPT ![p] =
                          IF Exists(fs, call[p].template_path)
                          THEN "PackageNotFoundError" ELSE "FileNotFoundError"]
            /\ UNCHANGED doc
       ELSE /\ doc' = [doc EXCEPT ![p] = ClearBody(fs[call[p].template_path])]
            /\ pc' = [pc EXCEPT ![p] = "extract"]
            /\ UNCHANGED exc
    /\ UNCHANGED <<call, style_json, source, fs0>>

\* lines 188-194
OpenTemplate(p) ==
    /\ pc[p] = "open_template"
    /\ IF ~Exists(fs, call[p].template_path)
       THEN /\ pc' = [pc EXCEPT ![p] = "raised"]
            /\ exc' = [exc EXCEPT ![p] = "FileNotFoundError"]
            /\ UNCHANGED doc
       ELSE IF ~Opens(fs, call[p].template_path)
       THEN /\ pc' = [pc EXCEPT ![p] = "raised"]
            /\ exc' = [exc EXCEPT ![p] = "PackageNotFoundError"]
            /\ UNCHANGED doc
       ELSE /\ doc' = [doc EXCEPT ![p] = ClearBody(fs[call[p].template_path])]
            /\ pc' = [pc EXCEPT ![p] = "extract"]
            /\ UNCHANGED exc
    /\ UNCHANGED <<fs, call, style_json, source, fs0>>

\* the frame of a call that is inside extract_styles_from_template, past
\* line 91: where it writes, what it writes and where it goes on afterwards
Writing(frame, save_path, style_data, return_to) ==
    [save_path |-> save_path, style_data |-> style_data, return_to |-> return_to]
    @@ frame

\* lines 198-203 up to line 91 of style_extractor: the reference is read and
\* the temp style file opened for writing, any error caught
ExtractReference(p) ==
    /\ pc[p] = "extract"
    /\ LET rp == call[p].reference_doc_path
       IN  IF rp # NoRef /\ Exists(fs, rp)
           THEN IF ~Opens(fs, rp)
                THEN /\ pc' = [pc EXCEPT ![p] = "fallback"]
                     /\ UNCHANGED <<fs, call>>
                ELSE /\ fs' = OpenForWriting(fs, TempStylePath)
                     /\ call' = [call EXCEPT ![p] =
                                    Writing(@, TempStylePath,
                                            ExtractedProfile(fs[rp]), "read_temp")]
                     /\ pc' = [pc EXCEPT ![p] = "write_styles"]
           ELSE /\ pc' = [pc EXCEPT ![p] = "fallback"]
                /\ UNCHANGED <<fs, call>>
    /\ UNCHANGED <<doc, style_json, exc, source, fs0>>

\* style_extractor line 92: the profile is written and the call of
\* extract_styles_from_template returns
WriteStyles(p) ==
    /\ pc[p] = "write_styles"
    /\ fs' \in DumpOutcomes(fs, call[p].save_path, call[p].style_data)
    /\ pc' = [pc EXCEPT ![p] = call[p].return_to]
    /\ UNCHANGED <<call, doc, style_json, exc, source, fs0>>

\* lines 205-206: the temp style file is read back, any error caught
ReadTempStyles(p) ==
    /\ pc[p] = "read_temp"
    /\ IF Exists(fs, TempStylePath) /\ Parses(fs[TempStylePath])
       THEN /\ style_json' = [style_json EXCEPT ![p] = fs[TempStylePath].value]
            /\ source' = [source EXCEPT ![p] = "reference"]
            /\ pc' = [pc EXCEPT ![p] = "remove_temp"]
       ELSE /\ pc' = [pc EXCEPT ![p] = "fallback"]
            /\ UNCHANGED <<style_json, source>>
    /\ UNCHANGED <<fs, call, doc, exc, fs0>>

\* line 210: os.remove, its FileNotFoundError caught with style_json kept
RemoveTempStyles(p) ==
    /\ pc[p] = "remove_temp"
    /\ fs' = [fs EXCEPT ![TempStylePath] = Absent]
    /\ pc' = [pc EXCEPT ![p] = "fallback"]
    /\ UNCHANGED <<call, doc, style_json, exc, source, fs0>>

\* faulty variant: a per-category style file that can be read replaces the
\* extracted profile
LoadFallbackStyles_FileFirst(p) ==
    /\ pc[p] = "fallback"
    /\ LET r == load_style_json(fs, call[p].doc_type)
       IN  IF Truthy(style_json[p]) /\ r.source # "style_file"
           THEN /\ pc' = [pc EXCEPT ![p] = "assemble"]
                /\ UNCHANGED <<style_json, source, exc>>
           ELSE IF r.raised
           THEN /\ pc' = [pc EXCEPT ![p] = "raised"]
                /\ exc' = [exc EXCEPT ![p] = "JSONDecodeError"]
                /\ UNCHANGED <<style_json, source>>
           ELSE /\ style_json' = [style_json EXCEPT ![p] = r.value]
                /\ source' = [source EXCEPT ![p] = r.source]
                /\ pc' = [pc EXCEPT ![p] = "assemble"]
                /\ UNCHANGED exc
    /\ UNCHANGED <<fs, call, doc, fs0>>

\* lines 216-217: load_style_json is called outside the try
LoadFallbackStyles(p) ==
    /\ pc[p] = "fallback"
    /\ LET r == load_style_json(fs, call[p].doc_type)
       IN  IF Truthy(style_json[p])
           THEN /\ pc' = [pc EXCEPT ![p] = "assemble"]
                /\ UNCHANGED <<style_json, source, exc>>
           ELSE IF r.raised
           THEN /\ pc' = [pc EXCEPT ![p] = "raised"]
                /\ exc' = [exc EXCEPT ![p] = "JSONDecodeError"]
                /\ UNCHANGED <<style_json, source>>
           ELSE /\ style_json' = [style_json EXCEPT ![p] = r.value]
                /\ source' = [source EXCEPT ![p] = r.source]
                /\ pc' = [pc EXCEPT ![p] = "assemble"]
                /\ UNCHANGED exc
    /\ UNCHANGED <<fs, call, doc, fs0>>

\* faulty variant: the document is saved once the title is in, before the
\* sections are walked
AssembleAndSave_SaveEarly(p) ==
    /\ pc[p] = "assemble"
    /\ LET titled == [doc[p] EXCEPT !.body =
                         AddTitle(doc[p].body, call[p].json_content, style_json[p])]
           built == [doc[p] EXCEPT !.body =
                        Assemble(doc[p].body, call[p].json_content,
                                 style_json[p], call[p].doc_type)]
       IN  IF AssemblyRaises(call[p].json_content)
           THEN /\ fs' = [fs EXCEPT ![OutPath(call[p].output_filename)] = titled]
                /\ pc' = [pc EXCEPT ![p] = "raised"]
                /\ exc' = [exc EXCEPT ![p] = "AttributeError"]
                /\ doc' = [doc EXCEPT ![p].body =
                              AssembledBeforeRaise(@, call[p].json_content,
                                                   style_json[p], call[p].doc_type)]
           ELSE /\ doc' = [doc EXCEPT ![p] = built]
                /\ fs' = [fs EXCEPT ![OutPath(call[p].output_filename)] = built]
                /\ pc' = [pc EXCEPT ![p] = "done"]
                /\ UNCHANGED exc
    /\ UNCHANGED <<call, style_json, source, fs0>>

\* faulty variant: an artifact that is already at the output path is kept
AssembleAndSave_KeepExisting(p) ==
    /\ pc[p] = "assemble"
    /\ LET built == [doc[p] EXCEPT !.body =
                        Assemble(doc[p].body, call[p].json_content,
                                 style_json[p], call[p].doc_type)]
           output_path == OutPath(call[p].output_filename)
       IN  IF AssemblyRaises(call[p].json_content)
           THEN /\ pc' = [pc EXCEPT ![p] = "raised"]
                /\ exc' = [exc EXCEPT ![p] = "AttributeError"]
                /\ doc' = [doc EXCEPT ![p].body =
                              AssembledBeforeRaise(@, call[p].json_content,
                                                   style_json[p], call[p].doc_type)]
                /\ UNCHANGED fs
           ELSE /\ doc' = [doc EXCEPT ![p] = built]
                /\ fs' = IF Exists(fs, output_path) THEN fs
                         ELSE [fs EXCEPT ![output_path] = built]
                /\ pc' = [pc EXCEPT ![p] = "done"]
                /\ UNCHANGED exc
    /\ UNCHANGED <<call, style_json, source, fs0>>

\* lines 219-261: title, sections, doc.save(output_path); an AttributeError
\* of the sections loop leaves the call before anything is saved, the
\* document in memory holding what was added until then
AssembleAndSave(p) ==
    /\ pc[p] = "assemble"
    /\ LET built == [doc[p] EXCEPT !.body =
                        Assemble(doc[p].body, call[p].json_content,
                                 style_json[p], call[p].doc_type)]
       IN  IF AssemblyRaises(call[p].json_content)
           THEN /\ pc' = [pc EXCEPT ![p] = "raised"]
                /\ exc' = [exc EXCEPT ![p] = "AttributeError"]
                /\ doc' = [doc EXCEPT ![p].body =
                              AssembledBeforeRaise(@, call[p].json_content,
                                                   style_json[p], call[p].doc_type)]
                /\ UNCHANGED fs
           ELSE /\ doc' = [doc EXCEPT ![p] = built]
                /\ fs' = [fs EXCEPT ![OutPath(call[p].output_filename)] = built]
                /\ pc' = [pc EXCEPT ![p] = "done"]
                /\ UNCHANGED exc
    /\ UNCHANGED <<call, style_json, source, fs0>>

Step(p) ==
    \/ Call(p)
    \/ OpenTemplate(p)
    \/ ExtractReference(p)
    \/ WriteStyles(p)
    \/ ReadTempStyles(p)
    \/ RemoveTempStyles(p)
    \/ LoadFallbackStyles(p)
    \/ AssembleAndSave(p)

\* one caller: the calls of the build run one at a time
Next == Step(1)

Spec == Init /\ [][Next]_vars

(***************************************************************************)
(* The build over content documents of every shape, well formed or not     *)
(***************************************************************************)
\* the values json_content["sections"] takes: mappings of well-formed
\* entries, of entries that lack keys or are no dict, and values that are no
\* mapping
ShapeSections ==
    {<<>>,
     <<[name |-> "intro", data |-> [type |-> "Paragraph", content |-> T("Hello")]]>>,
     <<[name |-> "bare", data |-> EmptyDict]>>,
     <<[name |-> "typed", data |-> [type |-> "Heading 2"]]>>,
     <<[name |-> "untyped", data |-> [content |-> T("Terms")]]>>,
     <<[name |-> "intro", data |-> [type |-> "Paragraph", content |-> T("Hello")]],
       [name |-> "text_entry", data |-> NotObject("str")]>>,
     NotMapping("list"),
     NotMapping("NoneType")}

ShapeContents ==
    {EmptyDict}
    \cup {[title |-> t] : t \in Titles}
    \cup {[sections |-> s] : s \in ShapeSections}
    \cup {[title |-> t, sections |-> s] : t \in Titles, s \in ShapeSections}

ShapeTemplatePaths == {"user.docx", "missing.docx", "corrupt.docx"}
ShapeReferencePaths == {NoRef, "georgia.docx", "corrupt.docx"}

InitShape ==
    /\ fs \in {InitialFs(store) : store \in {Absent, Corrupt, JsonFile(HandStyles)}}
    /\ fs0 = [p \in Callers |-> fs]
    /\ InitCallers

\* the call is made with a content document of any shape
CallShape(p) ==
    /\ pc[p] = "idle"
    /\ \E tp \in ShapeTemplatePaths, dt \in DocTypes, jc \in ShapeContents,
          fn \in OutputNames, rp \in ShapeReferencePaths :
          call' = [call EXCEPT ![p] =
                      [template_path |-> tp, doc_type |-> dt, json_content |-> jc,
                       output_filename |-> fn, reference_doc_path |-> rp]]
    /\ pc' = [pc EXCEPT ![p] = "open_template"]
    /\ fs0' = [fs0 EXCEPT ![p] = fs]
    /\ UNCHANGED <<fs, doc, style_json, exc, source>>

NextShape ==
    \/ CallShape(1)
    \/ OpenTemplate(1)
    \/ ExtractReference(1)
    \/ WriteStyles(1)
    \/ ReadTempStyles(1)
    \/ RemoveTempStyles(1)
    \/ LoadFallbackStyles(1)
    \/ AssembleAndSave(1)

SpecShape == InitShape /\ [][NextShape]_vars

(***************************************************************************)
(* Two callers in the build at the same time, each with its own reference  *)
(* and its own output filename; their steps interleave freely              *)
(***************************************************************************)
\* the reference and the output filename of each caller
ConcurrentReference(p) == IF p = 1 THEN "georgia.docx" ELSE "user.docx"
ConcurrentOutput(p) == IF p = 1 THEN "out1.docx" ELSE "out2.docx"

ConcurrentContents ==
    {[title |-> T("NDA"),
      sections |-> <<[name |-> "body",
                      data |-> [type |-> "Normal", content |-> T("Body")]]>>],
     [sections |-> <<[name |-> "main_heading",
                      data |-> [type |-> "Heading 1", content |-> T("Main")]]>>]}

InitConcurrent ==
    /\ fs = InitialFs(Absent)
    /\ fs0 = [p \in Callers |-> fs]
    /\ InitCallers

CallConcurrent(p) ==
    /\ pc[p] = "idle"
    /\ \E dt \in {"NDA", "Contract"}, jc \in ConcurrentContents :
          call' = [call EXCEPT ![p] =
                      [template_path |-> "blank.docx", doc_type |-> dt,
                       json_content |-> jc,
                       output_filename |-> ConcurrentOutput(p),
                       reference_doc_path |-> ConcurrentReference(p)]]
    /\ pc' = [pc EXCEPT ![p] = "open_template"]
    /\ fs0' = [fs0 EXCEPT ![p] = fs]
    /\ UNCHANGED <<fs, doc, style_json, exc, source>>

NextConcurrent ==
    \E p \in Callers :
        \/ CallConcurrent(p)
        \/ OpenTemplate(p)
        \/ ExtractReference(p)
        \/ WriteStyles(p)
        \/ ReadTempStyles(p)
        \/ RemoveTempStyles(p)
        \/ LoadFallbackStyles(p)
        \/ AssembleAndSave(p)

SpecConcurrent == InitConcurrent /\ [][NextConcurrent]_vars

(***************************************************************************)
(* The same call made twice in sequence: caller 2 repeats the call of      *)
(* caller 1 once that call has ended                                       *)
(***************************************************************************)
Ended(p) == pc[p] \in {"done", "raised"}

\* the second call, with the arguments of the first
CallAgain(p) ==
    /\ pc[p] = "idle"
    /\ p = 2
    /\ Ended(1)
    /\ call' = [call EXCEPT ![p] = call[1]]
    /\ pc' = [pc EXCEPT ![p] = "open_template"]
    /\ fs0' = [fs0 EXCEPT ![p] = fs]
    /\ UNCHANGED <<fs, doc, style_json, exc, source>>

NextRepeat ==
    \/ CallShape(1)
    \/ CallAgain(2)
    \/ \E p \in Callers :
           \/ OpenTemplate(p)
           \/ ExtractReference(p)
           \/ WriteStyles(p)
           \/ ReadTempStyles(p)
           \/ RemoveTempStyles(p)
           \/ LoadFallbackStyles(p)
           \/ AssembleAndSave(p)

SpecRepeat == InitShape /\ [][NextRepeat]_vars

(***************************************************************************)
(* extract_styles_from_template on its own, over many templates            *)
(***************************************************************************)
\* the most paragraphs in the body of a drawn template
MaxParas == 2

ParaStyles == {"Heading 1", "Normal", "Quote"}

ParaFonts ==
    {EmptyDict,
     [name |-> "Georgia", size |-> 11],
     [name |-> "", size |-> 0, bold |-> TRUE, underline |-> TRUE]}

ParaFormats ==
    {EmptyDict,
     [alignment |-> "CENTER", line_spacing |-> 15, left_indent |-> 36],
     [alignment |-> "DISTRIBUTE", line_spacing |-> 0, right_indent |-> 18]}

\* paragraphs with a first run, and one paragraph without runs
ParaPool ==
    {TemplatePara(st, T("text"), f, pf) :
        st \in ParaStyles, f \in ParaFonts, pf \in ParaFormats}
    \cup {[TemplatePara("Normal", EmptyText, EmptyDict,
                        [alignment |-> "JUSTIFY"]) EXCEPT !.runs = <<>>]}

TemplateBodies == UNION {[1..n -> ParaPool] : n \in 0..MaxParas}

\* what the template's named styles define: nothing, or "Normal" as Georgia 11
TemplateStyleDefs == {EmptyDict, ("Normal" :> [name |-> "Georgia", size |-> 11])}

SavePaths == {TempStylePath, StylePath("NDA")}

InitExtract ==
    /\ fs \in {[InitialFs(Absent) EXCEPT !["user.docx"] = DocxFile("h", "f", body, defs)] :
                  body \in TemplateBodies, defs \in TemplateStyleDefs}
    /\ fs0 = [p \in Callers |-> fs]
    /\ InitCallers

\* extract_styles_from_template(template_path, save_path) as one call
ExtractCall(p) ==
    /\ pc[p] = "idle"
    /\ \E tp \in {"user.docx", "corrupt.docx"}, sp \in SavePaths :
          IF ~Opens(fs, tp)
          THEN /\ call' = [call EXCEPT ![p] = [template_path |-> tp, save_path |-> sp]]
               /\ pc' = [pc EXCEPT ![p] = "raised"]
               /\ exc' = [exc EXCEPT ![p] = "PackageNotFoundError"]
               /\ UNCHANGED fs
          ELSE /\ call' = [call EXCEPT ![p] =
                              Writing([template_path |-> tp], sp,
                                      ExtractedProfile(fs[tp]), "done")]
               /\ fs' = OpenForWriting(fs, sp)
               /\ pc' = [pc EXCEPT ![p] = "write_styles"]
               /\ UNCHANGED exc
    /\ fs0' = [fs0 EXCEPT ![p] = fs]
    /\ UNCHANGED <<doc, style_json, source>>

NextExtract ==
    \/ ExtractCall(1)
    \/ WriteStyles(1)

SpecExtract == InitExtract /\ [][NextExtract]_vars

(***************************************************************************)
(* add_signature_section on its own, over many raw texts                   *)
(***************************************************************************)
\* the most lines of a drawn raw signature text
MaxSigLines == 2

SignatureLines ==
    {<<>>,
     <<DP_LABEL, SP, "Alice">>,
     <<RP_LABEL, SP, "Bob">>,
     <<DP_LABEL, SP, "Alice", SP, RP_LABEL, SP, "Bob">>,
     <<"Signed", SP, DP_LABEL, SP, "Carol">>,
     <<"disclosing party:", SP, "Dave">>,
     <<SP, RP_LABEL, SP, SP, "Erin", SP>>,
     <<DP_LABEL>>,
     <<RULE>>}

SignatureTexts == UNION {[1..n -> SignatureLines] : n \in 1..MaxSigLines}

SignatureProfiles == {get_default_styles, HandStyles, EmptyDict}

InitSignature ==
    /\ fs = InitialFs(Absent)
    /\ fs0 = [p \in Callers |-> fs]
    /\ InitCallers

\* add_signature_section(doc, signature_content, style_json, doc_type) on a
\* document with an empty body
SignatureCall(p) ==
    /\ pc[p] = "idle"
    /\ \E text \in SignatureTexts, styles \in SignatureProfiles, dt \in DocTypes :
          /\ call' = [call EXCEPT ![p] =
                         [signature_content |-> text, doc_type |-> dt]]
          /\ style_json' = [style_json EXCEPT ![p] = styles]
          /\ doc' = [doc EXCEPT ![p] =
                        [BlankTemplate EXCEPT !.body =
                            add_signature_section(<<>>, text, styles, dt, "signatures")]]
    /\ pc' = [pc EXCEPT ![p] = "done"]
    /\ UNCHANGED <<fs, exc, source, fs0>>

NextSignature == SignatureCall(1)

SpecSignature == InitSignature /\ [][NextSignature]_vars

(***************************************************************************)
(* document_service.generate_complete_document.  call[p] is the frame of   *)
(* the call: its arguments, its locals, the collaborators it has called    *)
(* (calls), the collaborator whose exception ended it (failed) and what it *)
(* returned (result).  What a collaborator returns, or that it raises, is  *)
(* drawn: they are external.                                               *)
(***************************************************************************)
\* config.SUPPORTED_LANGUAGES
SUPPORTED_LANGUAGES ==
    ("en" :> "English") @@ ("hi" :> "Hindi") @@ ("es" :> "Spanish")
 @@ ("fr" :> "French") @@ ("de" :> "German") @@ ("it" :> "Italian")
 @@ ("pt" :> "Portuguese") @@ ("ru" :> "Russian") @@ ("ja" :> "Japanese")
 @@ ("ko" :> "Korean") @@ ("ar" :> "Arabic") @@ ("zh" :> "Chinese")

\* language.upper()
UpperLanguage(language) ==
    CASE language = "en" -> "EN" [] language = "hi" -> "HI"
      [] language = "es" -> "ES" [] language = "fr" -> "FR"
      [] language = "de" -> "DE" [] language = "it" -> "IT"
      [] language = "pt" -> "PT" [] language = "ru" -> "RU"
      [] language = "ja" -> "JA" [] language = "ko" -> "KO"
      [] language = "ar" -> "AR" [] language = "zh" -> "ZH"

\* the parameters build_document_from_json_content declares, and the
\* keywords generate_complete_document passes it
BuildParameters ==
    {"template_path", "doc_type", "json_content", "output_filename",
     "reference_doc_path"}
BuildKeywords ==
    {"template_path", "doc_type", "json_content", "output_filename",
     "reference_doc_path", "language_code"}

\* Python binds the keywords to the parameters: an unknown one is a TypeError
Accepts(parameters, keywords) == keywords \subseteq parameters

\* os.path.join(SCHEMA_DIR, "doc_fields.json")
SchemaPath == "schemas/doc_fields.json"

\* the fields returned when the schema file gives none
DefaultRequiredFields == {"Name", "Company", "Date"}

\* gemini_extractor lines 32-49: the required_fields the schema file gives
\* the document type; the default when there is no file, when the file has
\* no such entry, and when reading it raises (the except of line 47)
get_required_fields_for_document_type(fsys, doc_type) ==
    IF Exists(fsys, SchemaPath) /\ Parses(fsys[SchemaPath])
    THEN Get(Get(fsys[SchemaPath].value, doc_type, EmptyDict),
             "required_fields", DefaultRequiredFields)
    ELSE DefaultRequiredFields

\* lines 76-79: the required fields the extraction left out or left empty
MissingFields(extracted_data, required_fields) ==
    {f \in required_fields : Get(extracted_data, f, "") = ""}

\* lines 81-93
FillMissingFields(extracted_data, required_fields) ==
    [f \in DOMAIN extracted_data \cup MissingFields(extracted_data, required_fields) |->
        IF f \notin MissingFields(extracted_data, required_fields)
        THEN extracted_data[f]
        ELSE CASE f = "Date" -> "today"
               [] f = "Term" -> "2 years"
               [] f = "Jurisdiction" -> "United States"
               [] OTHER -> "[Please provide " \o f \o "]"]

\* str(name_val).replace(' ', '_').replace('/', '_').replace('\\', '_')
SafeName(name_val) ==
    CASE name_val = "Alice Smith" -> "Alice_Smith"
      [] name_val = "Bob/Co" -> "Bob_Co"
      [] name_val = "[Please provide Name]" -> "[Please_provide_Name]"
      [] name_val = "Document" -> "Document"

\* lines 136-138
FinalFilename(extracted_data, doc_type, language) ==
    LET name_val ==
            IF Get(extracted_data, "Name", "") # "" THEN extracted_data["Name"]
            ELSE IF Get(extracted_data, "Client_Name", "") # ""
            THEN extracted_data["Client_Name"]
            ELSE "Document"
    IN  SafeName(name_val) \o "_" \o doc_type \o "_" \o UpperLanguage(language)
        \o "_Final.docx"

\* os.path.join(DOC_OUTPUT_DIR, output_filename) for any filename
ServiceOutPath(output_filename) == "output/docs/" \o output_filename

\* tempfile.NamedTemporaryFile(delete=False, suffix=".docx").name
\* (a name no other call is given)
TmpTemplatePath(p) == IF p = 1 THEN "tmp/tmp1.docx" ELSE "tmp/tmp2.docx"

\* template_file_content: None, b"", the bytes of a .docx, other bytes
NoBytes == [kind |-> "none"]
EmptyBytes == [kind |-> "empty"]
HasBytes(content) == content.kind \notin {"none", "empty"}

\* template_filename=None
NoFilename == ""

\* build_document_from_json_content run from its first line to its last
\* with no other caller: what it leaves on the file system and how it ends
BuildOutcome(fsys, template_path, doc_type, json_content, output_path, reference_doc_path) ==
    LET extracted ==
            /\ reference_doc_path # NoRef
            /\ Exists(fsys, reference_doc_path)
            /\ Opens(fsys, reference_doc_path)
        after_try ==
            IF extracted THEN [fsys EXCEPT ![TempStylePath] = Absent] ELSE fsys
        loaded == load_style_json(fsys, doc_type)
        styles ==
            IF extracted THEN ExtractedProfile(fsys[reference_doc_path])
            ELSE loaded.value
        tpl == fsys[template_path]
    IN  IF ~Exists(fsys, template_path)
        THEN [raised |-> "FileNotFoundError", fs |-> fsys]
        ELSE IF ~Opens(fsys, template_path)
        THEN [raised |-> "PackageNotFoundError", fs |-> fsys]
        ELSE IF ~extracted /\ loaded.raised
        THEN [raised |-> "JSONDecodeError", fs |-> after_try]
        ELSE IF AssemblyRaises(json_content)
        THEN [raised |-> "AttributeError", fs |-> after_try]
        ELSE [raised |-> "none",
              fs |-> [after_try EXCEPT ![output_path] =
                         DocxFile(tpl.header, tpl.footer,
                                  Assemble(<<>>, json_content, styles, doc_type),
                                  tpl.styles)]]

ServiceDocTypes == DocTypes \cup {"nda", "Lease", ""}
ServiceLanguages == {"en", "hi", "xx"}
Scenarios == {<<"Alice", SP, "hires", SP, "Bob">>, <<SP, SP>>, <<>>}
UploadedContents == {NoBytes, EmptyBytes, UserTemplate, Corrupt}
TemplateFilenames == {NoFilename, "upload.docx"}

\* what extract_metadata_from_scenario returns
ExtractedDatas ==
    {[Name |-> "Alice Smith", Company |-> "Acme", Date |-> "2024-01-01"],
     [Client_Name |-> "Bob/Co", Company |-> ""],
     [Company |-> "Acme"]}

\* what schemas/doc_fields.json holds: nothing, a file no JSON parser
\* accepts, fields of its own for NDA (and an entry without fields for
\* Contract), or no required field at all for NDA
SchemaFiles ==
    {Absent, Corrupt,
     JsonFile(("NDA" :> [required_fields |-> {"Name", "Term", "Jurisdiction"}])
              @@ ("Contract" :> EmptyDict)),
     JsonFile("NDA" :> [required_fields |-> {}])}

\* the sets of required fields those files give
RequiredFieldSets == {DefaultRequiredFields, {"Name", "Term", "Jurisdiction"}, {}}

\* what generate_document_content_with_gemini returns
ServiceContents ==
    {[title |-> T("NDA"),
      sections |-> <<[name |-> "intro",
                      data |-> [type |-> "Paragraph", content |-> T("Hello")]]>>],
     [title |-> T("NDA")],
     [title |-> T("NDA"), sections |-> NotMapping("list")]}

ServiceFilenames ==
    {FinalFilename(FillMissingFields(e, r), d, l) :
        e \in ExtractedDatas, r \in RequiredFieldSets, d \in ServiceDocTypes,
        l \in ServiceLanguages \cap DOMAIN SUPPORTED_LANGUAGES}

ServicePaths ==
    Paths \cup {SchemaPath} \cup {TmpTemplatePath(p) : p \in Callers}
    \cup {ServiceOutPath(f) : f \in ServiceFilenames}

InitService ==
    /\ \E schema \in SchemaFiles :
          fs = [path \in ServicePaths |->
                   IF path \in Paths THEN InitialFs(Absent)[path]
                   ELSE IF path = SchemaPath THEN schema ELSE Absent]
    /\ fs0 = [p \in Callers |-> fs]
    /\ InitCallers

\* lines 28-50: the call is made
ServiceCall(p) ==
    /\ pc[p] = "idle"
    /\ \E dt \in ServiceDocTypes, lang \in ServiceLanguages, sc \in Scenarios,
          content \in UploadedContents, filename \in TemplateFilenames :
          call' = [call EXCEPT ![p] =
                      [doc_type |-> dt, language |-> lang, scenario |-> sc,
                       template_file_content |-> content,
                       template_filename |-> filename,
                       extracted_data |-> EmptyDict,
                       missing_fields |-> {},
                       validated_content |-> NoneValue,
                       translation_status |-> "",
                       template_path |-> NoRef,
                       final_filename |-> "",
                       calls |-> <<>>,
                       failed |-> "",
                       start_time |-> NoneValue,
                       end_time |-> NoneValue,
                       result |-> NoneValue]]
    /\ pc' = [pc EXCEPT ![p] = "validate_inputs"]
    /\ fs0' = [fs0 EXCEPT ![p] = fs]
    /\ UNCHANGED <<fs, doc, style_json, exc, source>>

\* datetime.now(), in milliseconds from midnight of 30 October 2026: the
\* wall clock, which the second reading need not find later than the first
Clock == {-5, 0}

\* datetime.isoformat(): the microseconds are printed when there are any
IsoFormat(time) ==
    CASE time = 0 -> "2026-10-30T00:00:00"
      [] time = -5 -> "2026-10-29T23:59:59.995000"

\* len(tok) for the tokens a scenario is made of
TokenLen(tok) ==
    CASE tok = SP -> 1
      [] tok = "Hi" -> 2
      [] tok = "Bob" -> 3
      [] tok \in {"Alice", "hires"} -> 5

\* len(scenario)
RECURSIVE ScenarioLen(_)
ScenarioLen(scenario) ==
    IF scenario = <<>> THEN 0
    ELSE TokenLen(Head(scenario)) + ScenarioLen(Tail(scenario))

\* scenario[:n], for a cut that falls between two tokens
RECURSIVE ScenarioPrefix(_, _)
ScenarioPrefix(scenario, n) ==
    IF scenario = <<>> \/ TokenLen(Head(scenario)) > n THEN <<>>
    ELSE <<Head(scenario)>>
             \o ScenarioPrefix(Tail(scenario), n - TokenLen(Head(scenario)))

\* lines 181-184: whatever was raised inside the try leaves the call as a
\* DocumentGenerationError
ServiceRaises(p) ==
    /\ pc' = [pc EXCEPT ![p] = "raised"]
    /\ exc' = [exc EXCEPT ![p] = "DocumentGenerationError"]

\* faulty variant: the document type is not looked at
ValidateInputs_NoTypeCheck(p) ==
    /\ pc[p] = "validate_inputs"
    /\ IF \/ call[p].language \notin DOMAIN SUPPORTED_LANGUAGES
          \/ Strip(call[p].scenario) = <<>>
       THEN ServiceRaises(p)
       ELSE /\ pc' = [pc EXCEPT ![p] = "extract_metadata"]
            /\ UNCHANGED exc
    /\ \E start_time \in Clock :
          call' = [call EXCEPT ![p].start_time = start_time]
    /\ UNCHANGED <<fs, doc, style_json, source, fs0>>

\* lines 51-63: the clock is read, then the inputs are validated
ValidateInputs(p) ==
    /\ pc[p] = "validate_inputs"
    /\ IF \/ call[p].doc_type \notin DocTypes
          \/ call[p].language \notin DOMAIN SUPPORTED_LANGUAGES
          \/ Strip(call[p].scenario) = <<>>
       THEN ServiceRaises(p)
       ELSE /\ pc' = [pc EXCEPT ![p] = "extract_metadata"]
            /\ UNCHANGED exc
    /\ \E start_time \in Clock :
          call' = [call EXCEPT ![p].start_time = start_time]
    /\ UNCHANGED <<fs, doc, style_json, source, fs0>>

\* the frame after a collaborator was called
Called(frame, name) == [frame EXCEPT !.calls = Append(@, name)]

\* lines 67-93: extract_metadata_from_scenario, then the missing required
\* fields are filled
ExtractMetadata(p) ==
    /\ pc[p] = "extract_metadata"
    /\ LET frame == Called(call[p], "extract_metadata_from_scenario")
       IN  \/ /\ call' = [call EXCEPT ![p] =
                             [frame EXCEPT !.failed = "extract_metadata_from_scenario"]]
              /\ ServiceRaises(p)
           \/ \E extracted_data \in ExtractedDatas :
                 LET required_fields ==
                         get_required_fields_for_document_type(fs, call[p].doc_type)
                 IN
                 /\ call' = [call EXCEPT ![p] =
                                [frame EXCEPT
                                    !.extracted_data =
                                        FillMissingFields(extracted_data, required_fields),
                                    !.missing_fields =
                                        MissingFields(extracted_data, required_fields)]]
                 /\ pc' = [pc EXCEPT ![p] = "generate_content"]
                 /\ UNCHANGED exc
    /\ UNCHANGED <<fs, doc, style_json, source, fs0>>

\* lines 95-97: generate_document_content_with_gemini
GenerateContent(p) ==
    /\ pc[p] = "generate_content"
    /\ LET frame == Called(call[p], "generate_document_content_with_gemini")
       IN  \/ /\ call' = [call EXCEPT ![p] =
                             [frame EXCEPT
                                 !.failed = "generate_document_content_with_gemini"]]
              /\ ServiceRaises(p)
           \/ \E json_content \in ServiceContents :
                 /\ call' = [call EXCEPT ![p] =
                                [frame EXCEPT !.validated_content = json_content]]
                 /\ pc' = [pc EXCEPT ![p] = "validate_content"]
                 /\ UNCHANGED exc
    /\ UNCHANGED <<fs, doc, style_json, source, fs0>>

\* lines 99-101: validate_document_content
ValidateContent(p) ==
    /\ pc[p] = "validate_content"
    /\ LET frame == Called(call[p], "validate_document_content")
       IN  \/ /\ call' = [call EXCEPT ![p] =
                             [frame EXCEPT !.failed = "validate_document_content"]]
              /\ ServiceRaises(p)
           \/ \E validated_content \in ServiceContents :
                 /\ call' = [call EXCEPT ![p] =
                                [frame EXCEPT !.validated_content = validated_content]]
                 /\ pc' = [pc EXCEPT ![p] = "translate"]
                 /\ UNCHANGED exc
    /\ UNCHANGED <<fs, doc, style_json, source, fs0>>

\* what the MarianMT pipeline does with one text: it gives a translation, or
\* its load or its run raises
Pipelines == {"translates", "unavailable"}

\* translation_agent lines 61-92: each text has a try of its own and a
\* pipeline that failed to load is not cached, so the title and every
\* section have an outcome of their own
PipelineChoices(content_json) ==
    [title : Pipelines,
     sections : [DOMAIN Get(content_json, "sections", <<>>) -> Pipelines]]

\* translation_agent lines 58-59: `not text or text.strip() == ""`
IsBlankText(text) == \A i \in DOMAIN text : Strip(text[i]) = <<>>

\* translation_agent lines 56-92: a blank text is returned as it is, and so
\* is a text whose translation raised (line 92); a translation is held as
\* the text with the target language written in front of it
TranslateText(text, target_lang, pipeline) ==
    IF IsBlankText(text) \/ pipeline = "unavailable" THEN text
    ELSE [text EXCEPT ![1] =
             IF @ = <<>> THEN <<target_lang \o ":">>
             ELSE <<target_lang \o ":" \o Head(@)>> \o Tail(@)]

\* translation_agent lines 41-47: .items() on sections that are no mapping,
\* or .get on a section that is no dict, raises AttributeError
TranslationRaises(content_json) ==
    /\ "sections" \in DOMAIN content_json
    /\ \/ ~IsMapping(content_json.sections)
       \/ \E i \in DOMAIN content_json.sections :
              ~IsObject(content_json.sections[i].data)

\* translation_agent lines 44-51: a section keeps its type and its
\* translated content, and nothing else
TranslateSection(entry, target_language, pipeline) ==
    [name |-> entry.name,
     data |-> [type |-> Get(entry.data, "type", "Paragraph"),
               content |-> TranslateText(Get(entry.data, "content", EmptyText),
                                         target_language, pipeline)]]

\* translation_agent lines 18-54: a new dict holding the translated title
\* and the translated sections, each only when the content has it
translate_document_content(content_json, target_language, pipelines) ==
    IF target_language = "en" THEN content_json
    ELSE LET title ==
                 IF "title" \in DOMAIN content_json
                 THEN [title |-> TranslateText(content_json.title,
                                               target_language, pipelines.title)]
                 ELSE EmptyDict
             sections ==
                 IF "sections" \in DOMAIN content_json
                 THEN [sections |->
                          [i \in DOMAIN content_json.sections |->
                              TranslateSection(content_json.sections[i],
                                               target_language,
                                               pipelines.sections[i])]]
                 ELSE EmptyDict
         IN  title @@ sections

\* lines 103-115: translation, its failure caught and English kept
Translate(p) ==
    /\ pc[p] = "translate"
    /\ IF call[p].language # "en"
       THEN LET frame == Called(call[p], "translate_document_content")
            IN  IF TranslationRaises(frame.validated_content)
                THEN call' = [call EXCEPT ![p] =
                                 [frame EXCEPT
                                     !.translation_status = "Failed, used English",
                                     !.language = "en"]]
                ELSE \E pipelines \in PipelineChoices(frame.validated_content) :
                        call' = [call EXCEPT ![p] =
                                    [frame EXCEPT
                                        !.validated_content =
                                            translate_document_content(
                                                @, call[p].language, pipelines),
                                        !.translation_status =
                                            "Applied ("
                                            \o SUPPORTED_LANGUAGES[call[p].language]
                                            \o ")"]]
       ELSE call' = [call EXCEPT ![p] =
                        [call[p] EXCEPT !.translation_status = "Not needed (English)"]]
    /\ pc' = [pc EXCEPT ![p] = "prepare_template"]
    /\ UNCHANGED <<fs, doc, style_json, exc, source, fs0>>

\* lines 117-130: the upload, or a blank Document, is written to a temp file
PrepareTemplate(p) ==
    /\ pc[p] = "prepare_template"
    /\ fs' = [fs EXCEPT ![TmpTemplatePath(p)] =
                 IF /\ HasBytes(call[p].template_file_content)
                    /\ call[p].template_filename # NoFilename
                 THEN call[p].template_file_content
                 ELSE BlankTemplate]
    /\ call' = [call EXCEPT ![p] = [call[p] EXCEPT !.template_path = TmpTemplatePath(p)]]
    /\ pc' = [pc EXCEPT ![p] = "build"]
    /\ UNCHANGED <<doc, style_json, exc, source, fs0>>

\* lines 154-173: the processing time and the metadata
Metadata(frame) ==
    [doc_type |-> frame.doc_type,
     language |-> SUPPORTED_LANGUAGES[frame.language],
     language_code |-> frame.language,
     extracted_fields |-> frame.extracted_data,
     sections_generated |-> Len(Get(frame.validated_content, "sections", <<>>)),
     processing_time_ms |-> frame.end_time - frame.start_time,
     template_used |-> HasBytes(frame.template_file_content),
     template_filename |-> frame.template_filename,
     translation_status |-> frame.translation_status,
     scenario |-> ScenarioPrefix(frame.scenario, 100)
                      \o (IF ScenarioLen(frame.scenario) > 100
                          THEN <<"...">> ELSE <<>>),
     generation_timestamp |-> IsoFormat(frame.end_time),
     missing_fields_filled |-> frame.missing_fields,
     final_filename |-> frame.final_filename]

\* faulty variant: the temp template is removed after a build that returned only
BuildFinal_NoFinally(p) ==
    /\ pc[p] = "build"
    /\ LET frame ==
               [Called(call[p], "build_document_from_json_content") EXCEPT
                   !.final_filename =
                       FinalFilename(call[p].extracted_data, call[p].doc_type,
                                     call[p].language)]
           output_path == ServiceOutPath(frame.final_filename)
           built ==
               BuildOutcome(fs, frame.template_path, frame.doc_type,
                            frame.validated_content, output_path,
                            IF HasBytes(frame.template_file_content)
                            THEN frame.template_path ELSE NoRef)
       IN  IF ~Accepts(BuildParameters, BuildKeywords)
           THEN /\ fs' = fs
                /\ call' = [call EXCEPT ![p] =
                               [frame EXCEPT !.failed = "TypeError"]]
                /\ ServiceRaises(p)
           ELSE IF built.raised # "none"
           THEN /\ fs' = built.fs
                /\ call' = [call EXCEPT ![p] =
                               [frame EXCEPT !.failed = built.raised]]
                /\ ServiceRaises(p)
           ELSE /\ fs' = [built.fs EXCEPT ![frame.template_path] = Absent]
                /\ \E end_time \in Clock :
                      LET ended == [frame EXCEPT !.end_time = end_time]
                      IN  call' = [call EXCEPT ![p] =
                                      [ended EXCEPT
                                          !.result = [path |-> output_path,
                                                      metadata |-> Metadata(ended)]]]
                /\ pc' = [pc EXCEPT ![p] = "returned"]
                /\ UNCHANGED exc
    /\ UNCHANGED <<doc, style_json, source, fs0>>

\* lines 132-184: the build call with its keywords, the temp template
\* removed in the finally, then the return of path and metadata
BuildFinal(p) ==
    /\ pc[p] = "build"
    /\ LET frame ==
               [Called(call[p], "build_document_from_json_content") EXCEPT
                   !.final_filename =
                       FinalFilename(call[p].extracted_data, call[p].doc_type,
                                     call[p].language)]
           output_path == ServiceOutPath(frame.final_filename)
           built ==
               BuildOutcome(fs, frame.template_path, frame.doc_type,
                            frame.validated_content, output_path,
                            IF HasBytes(frame.template_file_content)
                            THEN frame.template_path ELSE NoRef)
       IN  IF ~Accepts(BuildParameters, BuildKeywords)
           THEN /\ fs' = [fs EXCEPT ![frame.template_path] = Absent]
                /\ call' = [call EXCEPT ![p] =
                               [frame EXCEPT !.failed = "TypeError"]]
                /\ ServiceRaises(p)
           ELSE IF built.raised # "none"
           THEN /\ fs' = [built.fs EXCEPT ![frame.template_path] = Absent]
                /\ call' = [call EXCEPT ![p] =
                               [frame EXCEPT !.failed = built.raised]]
                /\ ServiceRaises(p)
           ELSE /\ fs' = [built.fs EXCEPT ![frame.template_path] = Absent]
                /\ \E end_time \in Clock :
                      LET ended == [frame EXCEPT !.end_time = end_time]
                      IN  call' = [call EXCEPT ![p] =
                                      [ended EXCEPT
                                          !.result = [path |-> output_path,
                                                      metadata |-> Metadata(ended)]]]
                /\ pc' = [pc EXCEPT ![p] = "returned"]
                /\ UNCHANGED exc
    /\ UNCHANGED <<doc, style_json, source, fs0>>

NextService ==
    \/ ServiceCall(1)
    \/ ValidateInputs(1)
    \/ ExtractMetadata(1)
    \/ GenerateContent(1)
    \/ ValidateContent(1)
    \/ Translate(1)
    \/ PrepareTemplate(1)
    \/ BuildFinal(1)

SpecService == InitService /\ [][NextService]_vars

(***************************************************************************)
(* Lines 219-252 one statement group at a time: the title, then one turn   *)
(* of the sections loop per step, with style_json[p] the profile object    *)
(* the loop holds and call[p].next the section it is at                    *)
(***************************************************************************)
\* the key of the profile whose entry line 245 returns, "" when it returns
\* the literal {}
LookupKey(styles, section_type) ==
    IF section_type \in DOMAIN styles THEN section_type
    ELSE IF "Normal" \in DOMAIN styles THEN "Normal"
    ELSE ""

\* faulty variant: align is set on the looked-up entry itself
ProfileAfterSection_InPlace(styles, section_type) ==
    IF section_type \in {"Paragraph", "Normal"} /\ LookupKey(styles, section_type) # ""
    THEN [styles EXCEPT ![LookupKey(styles, section_type)] =
             DictSet(@, "align", "justify")]
    ELSE styles

\* lines 248-250: style_props.copy() is what gets align, the profile stays
ProfileAfterSection(styles, section_type) == styles

SectionProfiles ==
    {get_default_styles, HandStyles, NormalOnlyStyles,
     ExtractedProfile(GeorgiaTemplate), EmptyDict}

InitSections ==
    /\ fs = InitialFs(Absent)
    /\ fs0 = [p \in Callers |-> fs]
    /\ InitCallers

\* the assembly starts on a cleared document with a resolved profile
SectionsCall(p) ==
    /\ pc[p] = "idle"
    /\ \E styles \in SectionProfiles, dt \in {"NDA", "Contract"}, jc \in Contents :
          /\ call' = [call EXCEPT ![p] =
                         [doc_type |-> dt, json_content |-> jc, next |-> 1,
                          resolved |-> styles]]
          /\ style_json' = [style_json EXCEPT ![p] = styles]
    /\ doc' = [doc EXCEPT ![p] = ClearBody(BlankTemplate)]
    /\ pc' = [pc EXCEPT ![p] = "add_title"]
    /\ UNCHANGED <<fs, exc, source, fs0>>

\* lines 219-225
EmitTitle(p) ==
    /\ pc[p] = "add_title"
    /\ doc' = [doc EXCEPT ![p].body =
                  AddTitle(@, call[p].json_content, style_json[p])]
    /\ pc' = [pc EXCEPT ![p] = "add_sections"]
    /\ UNCHANGED <<fs, call, style_json, exc, source, fs0>>

\* lines 229-252: one turn of the loop
EmitSection(p) ==
    /\ pc[p] = "add_sections"
    /\ call[p].next <= Len(SectionsOfCall(call[p]))
    /\ LET entry == SectionsOfCall(call[p])[call[p].next]
           section_type == Get(entry.data, "type", "Paragraph")
           section_content == Get(entry.data, "content", EmptyText)
           styled ==
               /\ ~IsDuplicateTitle(call[p].json_content, section_type, section_content)
               /\ section_type # "Signature"
       IN  /\ doc' = [doc EXCEPT ![p].body =
                         AddSection(@, entry, call[p].json_content, style_json[p],
                                    call[p].doc_type)]
           /\ style_json' = [style_json EXCEPT ![p] =
                                IF styled THEN ProfileAfterSection(@, section_type)
                                ELSE @]
    /\ call' = [call EXCEPT ![p].next = @ + 1]
    /\ UNCHANGED <<fs, pc, exc, source, fs0>>

NextSections ==
    \/ SectionsCall(1)
    \/ EmitTitle(1)
    \/ EmitSection(1)

SpecSections == InitSections /\ [][NextSections]_vars

(***************************************************************************)
(* api_server.generate_document: two requests, each running the handler's  *)
(* validation, the read of its upload, the steps of                        *)
(* generate_complete_document and the move into the downloads directory,   *)
(* interleaved step by step; cleanup_file may follow the answer            *)
(***************************************************************************)
\* str(uuid.uuid4()): an id no other request is given
FileId(p) == IF p = 1 THEN "id1" ELSE "id2"

\* DOWNLOADS_DIR / f"{file_id}_{filename}"
DownloadPath(p, filename) == "downloads/" \o FileId(p) \o "_" \o filename

\* template.filename.endswith('.docx')
EndsWithDocx(filename) ==
    CASE filename = "upload.docx" -> TRUE
      [] filename = "notes.txt" -> FALSE

\* template=None
NoUpload == [given |-> FALSE]

ApiDocTypes == {"NDA", "Lease"}
ApiLanguages == {"en", "xx"}
ApiScenarios == {<<"Alice", SP, "hires", SP, "Bob">>, <<"Hi">>, <<SP, SP>>}
ApiUploads ==
    {NoUpload,
     [given |-> TRUE, filename |-> "upload.docx", content |-> UserTemplate],
     [given |-> TRUE, filename |-> "notes.txt", content |-> Corrupt]}

ApiPaths ==
    ServicePaths \cup {DownloadPath(p, f) : p \in Callers, f \in ServiceFilenames}

InitApi ==
    /\ \E schema \in SchemaFiles :
          fs = [path \in ApiPaths |->
                   IF path \in Paths THEN InitialFs(Absent)[path]
                   ELSE IF path = SchemaPath THEN schema ELSE Absent]
    /\ fs0 = [p \in Callers |-> fs]
    /\ InitCallers

\* the handler is a coroutine on one event loop (uvicorn.run, lines 254-260)
\* and generate_complete_document is called without await: a request runs
\* starts, or resumes after the await of line 159, while no other request is
\* between two statements of its handler
HasLoop(p) ==
    \A q \in Callers \ {p} : pc[q] \in {"idle", "read_upload", "responded"}

\* lines 127-158: the handler's own validation; a request it rejects is
\* answered with 400, one with an upload waits for its bytes at the await of
\* line 159, any other goes on to generate_complete_document
ApiCall(p) ==
    /\ pc[p] = "idle"
    /\ HasLoop(p)
    /\ \E dt \in ApiDocTypes, lang \in ApiLanguages, sc \in ApiScenarios,
          template \in ApiUploads :
          LET rejected ==
                  \/ Strip(sc) = <<>>
                  \/ ScenarioLen(sc) < 10
                  \/ dt \notin DocTypes
                  \/ lang \notin DOMAIN SUPPORTED_LANGUAGES
                  \/ template.given /\ ~EndsWithDocx(template.filename)
          IN  /\ call' = [call EXCEPT ![p] =
                             [doc_type |-> dt, language |-> lang, scenario |-> sc,
                              template |-> template,
                              template_file_content |-> NoBytes,
                              template_filename |-> NoFilename,
                              extracted_data |-> EmptyDict,
                              missing_fields |-> {},
                              validated_content |-> NoneValue,
                              translation_status |-> "",
                              template_path |-> NoRef,
                              final_filename |-> "",
                              calls |-> <<>>,
                              failed |-> "",
                              start_time |-> NoneValue,
                              end_time |-> NoneValue,
                              result |-> NoneValue,
                              status |-> IF rejected THEN 400 ELSE 0,
                              download_url |-> "",
                              generated_file |-> NoneValue]]
              /\ pc' = [pc EXCEPT ![p] =
                           IF rejected THEN "responded"
                           ELSE IF template.given THEN "read_upload"
                           ELSE "validate_inputs"]
    /\ fs0' = [fs0 EXCEPT ![p] = fs]
    /\ UNCHANGED <<fs, doc, style_json, exc, source>>

\* lines 159-160: the handler resumes with the bytes of the upload
ReadUpload(p) ==
    /\ pc[p] = "read_upload"
    /\ HasLoop(p)
    /\ call' = [call EXCEPT
                   ![p].template_file_content = call[p].template.content,
                   ![p].template_filename = call[p].template.filename]
    /\ pc' = [pc EXCEPT ![p] = "validate_inputs"]
    /\ UNCHANGED <<fs, doc, style_json, exc, source, fs0>>

\* lines 166-213: a DocumentGenerationError is answered with 400; a returned
\* path is moved into the downloads directory and answered with its URL, a
\* move that does not find the file is answered with 500
ApiFinish(p) ==
    /\ pc[p] \in {"returned", "raised"}
    /\ IF pc[p] = "raised"
       THEN /\ call' = [call EXCEPT ![p].status = 400]
            /\ UNCHANGED fs
       ELSE LET doc_path == call[p].result.path
                download_path == DownloadPath(p, call[p].final_filename)
            IN  IF ~Exists(fs, doc_path)
                THEN /\ call' = [call EXCEPT ![p].status = 500]
                     /\ UNCHANGED fs
                ELSE /\ fs' = [fs EXCEPT ![download_path] = fs[doc_path],
                                         ![doc_path] = Absent]
                     /\ call' = [call EXCEPT
                                    ![p].status = 200,
                                    ![p].download_url = download_path,
                                    ![p].generated_file =
                                        [path |-> download_path,
                                         filename |-> call[p].final_filename,
                                         metadata |-> call[p].result.metadata]]
    /\ pc' = [pc EXCEPT ![p] = "responded"]
    /\ UNCHANGED <<doc, style_json, exc, source, fs0>>

NextApi ==
    \E p \in Callers :
        \/ ApiCall(p)
        \/ ReadUpload(p)
        \/ ValidateInputs(p)
        \/ ExtractMetadata(p)
        \/ GenerateContent(p)
        \/ ValidateContent(p)
        \/ Translate(p)
        \/ PrepareTemplate(p)
        \/ BuildFinal(p)
        \/ ApiFinish(p)

SpecApi == InitApi /\ [][NextApi]_vars

(***************************************************************************)
(* api_server.cleanup_file, called by two threads (the handler does not    *)
(* schedule it: line 192 is a comment); the test of line 67 and the        *)
(* os.remove of line 68 are a step each                                    *)
(***************************************************************************)
\* a download an earlier run of the server has left in DOWNLOADS_DIR
OldDownloadPath == "downloads/id0_Old_NDA_EN_Final.docx"

\* the download of a request answered with 200
OwnDownloadPath(p) == DownloadPath(p, FinalFilename([Name |-> "Alice Smith"], "NDA", "en"))

CleanupPaths == {OldDownloadPath} \cup {OwnDownloadPath(p) : p \in Callers}

\* what generate_complete_document held at its return for the request whose
\* download OwnDownloadPath is: NDA, English, no upload
AnsweredFrame ==
    [doc_type |-> "NDA", language |-> "en",
     scenario |-> <<"Alice", SP, "hires", SP, "Bob">>,
     extracted_data |-> [Name |-> "Alice Smith"],
     validated_content |->
         [title |-> T("NDA"),
          sections |-> <<[name |-> "intro",
                          data |-> [type |-> "Paragraph", content |-> T("Hello")]]>>],
     template_file_content |-> NoBytes, template_filename |-> NoFilename,
     translation_status |-> "Not needed (English)", missing_fields |-> {},
     final_filename |-> "Alice_Smith_NDA_EN_Final.docx",
     start_time |-> -5, end_time |-> 0]

\* generated_files[file_id] as lines 185-189 store it: the download path,
\* the filename and the metadata the service returned
GeneratedEntry(p) ==
    [path |-> OwnDownloadPath(p),
     filename |-> AnsweredFrame.final_filename,
     metadata |-> Metadata(AnsweredFrame)]

InitCleanup ==
    /\ fs \in [CleanupPaths -> {Absent, OldArtifact}]
    /\ fs0 = [p \in Callers |-> fs]
    /\ InitCallers

\* lines 64-67 and, with no file at the path, 69-70: generated_file is the
\* entry of generated_files under the call's file_id, None when there is
\* none; caught says whether the except of line 71 was entered
CleanupFile(p) ==
    /\ pc[p] = "idle"
    /\ \E file_path \in CleanupPaths, entry \in {NoneValue, GeneratedEntry(p)} :
          /\ call' = [call EXCEPT ![p] =
                         [file_path |-> file_path, file_id |-> FileId(p),
                          generated_file |->
                              IF Exists(fs, file_path) THEN entry ELSE NoneValue,
                          caught |-> FALSE]]
          /\ pc' = [pc EXCEPT ![p] =
                       IF Exists(fs, file_path) THEN "remove" ELSE "cleaned"]
    /\ fs0' = [fs0 EXCEPT ![p] = fs]
    /\ UNCHANGED <<fs, doc, style_json, exc, source>>

\* lines 68-72: os.remove, then the pop; an os.remove that finds no file any
\* more raises FileNotFoundError, which line 71 catches before the pop
RemoveFile(p) ==
    /\ pc[p] = "remove"
    /\ IF Exists(fs, call[p].file_path)
       THEN /\ fs' = [fs EXCEPT ![call[p].file_path] = Absent]
            /\ call' = [call EXCEPT ![p].generated_file = NoneValue]
       ELSE /\ call' = [call EXCEPT ![p].caught = TRUE]
            /\ UNCHANGED fs
    /\ pc' = [pc EXCEPT ![p] = "cleaned"]
    /\ UNCHANGED <<doc, style_json, exc, source, fs0>>

NextCleanup ==
    \E p \in Callers :
        \/ CleanupFile(p)
        \/ RemoveFile(p)

SpecCleanup == InitCleanup /\ [][NextCleanup]_vars

(***************************************************************************)
(* template_manager.register_new_template, a step per file-system access,  *)
(* followed by the load_style_json of the same document type; the second   *)
(* caller registers after the first has loaded. A load_style_json that     *)
(* another thread runs while a registration is writing is LoadDuring       *)
(***************************************************************************)
\* os.path.join(TEMPLATE_DIR, f"{doc_type.lower()}.docx")
TemplateDest(doc_type) == "templates/" \o Lower(doc_type) \o ".docx"

RegisterDocTypes == {"NDA", "Contract"}

\* the paths a registration is given: uploads, and a template registered before
RegisterPaths ==
    {"user.docx", "georgia.docx", "blank.docx", "missing.docx", "corrupt.docx",
     TemplateDest("NDA")}

InitRegister ==
    /\ fs \in {[path \in Paths \cup {TemplateDest(d) : d \in RegisterDocTypes} |->
                   IF path \in Paths THEN InitialFs(store)[path] ELSE Absent] :
               store \in StoreFiles}
    /\ fs0 = [p \in Callers |-> fs]
    /\ InitCallers

\* the registration and the load after it have ended
Loaded(p) == pc[p] = "loaded"

RegisterCall(p) ==
    /\ pc[p] = "idle"
    /\ p = 2 => Loaded(1)
    /\ \E tp \in RegisterPaths, dt \in RegisterDocTypes :
          call' = [call EXCEPT ![p] =
                      [template_path |-> tp, doc_type |-> dt, outcome |-> "none"]]
    /\ pc' = [pc EXCEPT ![p] = "check_path"]
    /\ fs0' = [fs0 EXCEPT ![p] = fs]
    /\ UNCHANGED <<fs, doc, style_json, exc, source>>

\* lines 70-72: a path that does not exist ends the call without an exception
CheckPath(p) ==
    /\ pc[p] = "check_path"
    /\ pc' = [pc EXCEPT ![p] =
                 IF Exists(fs, call[p].template_path) THEN "copy_template"
                 ELSE "returned"]
    /\ call' = [call EXCEPT ![p].outcome =
                   IF Exists(fs, call[p].template_path) THEN @ ELSE "not_found"]
    /\ UNCHANGED <<fs, doc, style_json, exc, source, fs0>>

\* lines 75-76: shutil.copy2 raises SameFileError when source and
\* destination are one file
CopyTemplate(p) ==
    /\ pc[p] = "copy_template"
    /\ LET dest_path == TemplateDest(call[p].doc_type)
       IN  IF call[p].template_path = dest_path
           THEN /\ pc' = [pc EXCEPT ![p] = "raised"]
                /\ exc' = [exc EXCEPT ![p] = "SameFileError"]
                /\ call' = [call EXCEPT ![p].outcome = "raised"]
                /\ UNCHANGED fs
           ELSE /\ fs' = [fs EXCEPT ![dest_path] = fs[call[p].template_path]]
                /\ pc' = [pc EXCEPT ![p] = "extract_styles"]
                /\ UNCHANGED <<exc, call>>
    /\ UNCHANGED <<doc, style_json, source, fs0>>

\* faulty variant: a style file that is there already is kept
ExtractStyles_KeepExisting(p) ==
    /\ pc[p] = "extract_styles"
    /\ LET dest_path == TemplateDest(call[p].doc_type)
           style_output_path == StylePath(call[p].doc_type)
       IN  IF ~Opens(fs, dest_path)
           THEN /\ pc' = [pc EXCEPT ![p] = "raised"]
                /\ exc' = [exc EXCEPT ![p] = "PackageNotFoundError"]
                /\ call' = [call EXCEPT ![p].outcome = "raised"]
                /\ UNCHANGED fs
           ELSE IF Exists(fs, style_output_path)
           THEN /\ pc' = [pc EXCEPT ![p] = "returned"]
                /\ call' = [call EXCEPT ![p].outcome = "registered"]
                /\ UNCHANGED <<fs, exc>>
           ELSE /\ fs' = OpenForWriting(fs, style_output_path)
                /\ call' = [call EXCEPT ![p] =
                               Writing([@ EXCEPT !.outcome = "registered"],
                                       style_output_path,
                                       ExtractedProfile(fs[dest_path]), "returned")]
                /\ pc' = [pc EXCEPT ![p] = "write_styles"]
                /\ UNCHANGED exc
    /\ UNCHANGED <<doc, style_json, source, fs0>>

\* lines 80-81 up to line 91 of style_extractor: the copy is read and the
\* style file opened for writing; the call returns once WriteStyles has run
ExtractStyles(p) ==
    /\ pc[p] = "extract_styles"
    /\ LET dest_path == TemplateDest(call[p].doc_type)
           style_output_path == StylePath(call[p].doc_type)
       IN  IF ~Opens(fs, dest_path)
           THEN /\ pc' = [pc EXCEPT ![p] = "raised"]
                /\ exc' = [exc EXCEPT ![p] = "PackageNotFoundError"]
                /\ call' = [call EXCEPT ![p].outcome = "raised"]
                /\ UNCHANGED fs
           ELSE /\ fs' = OpenForWriting(fs, style_output_path)
                /\ call' = [call EXCEPT ![p] =
                               Writing([@ EXCEPT !.outcome = "registered"],
                                       style_output_path,
                                       ExtractedProfile(fs[dest_path]), "returned")]
                /\ pc' = [pc EXCEPT ![p] = "write_styles"]
                /\ UNCHANGED exc
    /\ UNCHANGED <<doc, style_json, source, fs0>>

\* load_style_json(doc_type) once the registration has ended
LoadStyles(p) ==
    /\ pc[p] \in {"returned", "raised"}
    /\ LET r == load_style_json(fs, call[p].doc_type)
       IN  /\ style_json' = [style_json EXCEPT ![p] = r.value]
           /\ source' = [source EXCEPT ![p] =
                            IF r.raised THEN "JSONDecodeError" ELSE r.source]
    /\ pc' = [pc EXCEPT ![p] = "loaded"]
    /\ UNCHANGED <<fs, call, doc, exc, fs0>>

\* load_style_json run by another thread while a registration is between
\* lines 91 and 92 of style_extractor
LoadDuring(p) ==
    /\ pc[p] = "idle"
    /\ \E q \in Callers \ {p} :
          /\ pc[q] = "write_styles"
          /\ LET r == load_style_json(fs, call[q].doc_type)
             IN  /\ style_json' = [style_json EXCEPT ![p] = r.value]
                 /\ source' = [source EXCEPT ![p] =
                                  IF r.raised THEN "JSONDecodeError" ELSE r.source]
    /\ UNCHANGED <<fs, pc, call, doc, exc, fs0>>

NextRegister ==
    \E p \in Callers :
        \/ LoadDuring(p)
        \/ RegisterCall(p)
        \/ CheckPath(p)
        \/ CopyTemplate(p)
        \/ ExtractStyles(p)
        \/ WriteStyles(p)
        \/ LoadStyles(p)

SpecRegister == InitRegister /\ [][NextRegister]_vars

(***************************************************************************)
(* document_builder.build_document and                                     *)
(* placeholder_filler.fill_placeholders: a draft assembled from a schema   *)
(* list, and the placeholders of a draft filled from a data dict; each     *)
(* call is one step                                                        *)
(***************************************************************************)
\* os.path.join(WORKING_DIR, output_filename)
WorkingPath(output_filename) == "working/" \o output_filename

\* the bracket characters of a placeholder, each a token of its line
LB == "["
RB == "]"

\* document_builder lines 158-164: one turn of the loop over the schema
AddSchemaSection(body, section, styles) ==
    LET sec_type == Get(section, "type", "Paragraph")
        sec_text == Get(section, "text", EmptyText)
        style_props == Get(styles, sec_type, Get(styles, "Paragraph", EmptyDict))
    IN  body \o <<apply_style_to_paragraph(add_paragraph(sec_text, "schema"),
                                           style_props)>>

\* document_builder lines 158-164: the loop over the schema
RECURSIVE AddSchemaSections(_, _, _)
AddSchemaSections(body, schema, styles) ==
    IF schema = <<>> THEN body
    ELSE AddSchemaSections(AddSchemaSection(body, Head(schema), styles),
                           Tail(schema), styles)

\* document_builder lines 141-172: what the call raises, the document it
\* holds when it ends and the file system it leaves
build_document(fsys, template_path, doc_type, schema, output_filename) ==
    IF ~Exists(fsys, template_path)
    THEN [raised |-> "FileNotFoundError", doc |-> NoneValue, fs |-> fsys]
    ELSE IF ~Opens(fsys, template_path)
    THEN [raised |-> "PackageNotFoundError", doc |-> NoneValue, fs |-> fsys]
    ELSE LET cleared == ClearBody(fsys[template_path])
             loaded == load_style_json(fsys, doc_type)
             built == [cleared EXCEPT
                          !.body = AddSchemaSections(@, schema, loaded.value)]
         IN  IF loaded.raised
             THEN [raised |-> "JSONDecodeError", doc |-> cleared, fs |-> fsys]
             ELSE [raised |-> "none", doc |-> built,
                   fs |-> [fsys EXCEPT ![WorkingPath(output_filename)] = built]]

\* the position of the first token of the line that is tok
FirstIndex(line, tok) ==
    CHOOSE i \in DOMAIN line :
        line[i] = tok /\ \A j \in 1..(i - 1) : line[j] # tok

\* re.findall(r"\[(.*?)\]", line): what stands between each "[" and the
\* first "]" after it, from left to right
RECURSIVE FindPlaceholders(_)
FindPlaceholders(line) ==
    IF LB \notin Range(line) THEN <<>>
    ELSE LET rest == SubSeq(line, FirstIndex(line, LB) + 1, Len(line))
         IN  IF RB \notin Range(rest) THEN <<>>
             ELSE <<SubSeq(rest, 1, FirstIndex(rest, RB) - 1)>>
                  \o FindPlaceholders(
                         SubSeq(rest, FirstIndex(rest, RB) + 1, Len(rest)))

\* the matches of all lines of a run's text ("." stops at a line end)
RECURSIVE TextPlaceholders(_)
TextPlaceholders(text) ==
    IF text = <<>> THEN <<>>
    ELSE FindPlaceholders(Head(text)) \o TextPlaceholders(Tail(text))

\* the string the tokens of a line spell
RECURSIVE Join(_)
Join(line) == IF line = <<>> THEN "" ELSE Head(line) \o Join(Tail(line))

\* line.replace(needle, value) for a needle of several tokens
RECURSIVE ReplaceAll(_, _, _)
ReplaceAll(line, needle, value) ==
    IF Len(line) < Len(needle) THEN line
    ELSE IF SubSeq(line, 1, Len(needle)) = needle
    THEN value \o ReplaceAll(SubSeq(line, Len(needle) + 1, Len(line)),
                             needle, value)
    ELSE <<Head(line)>> \o ReplaceAll(Tail(line), needle, value)

\* placeholder_filler lines 63-67: match by match, "[key]" with the stripped
\* key is replaced where data holds a value for the key that is not empty
RECURSIVE ReplaceMatches(_, _, _)
ReplaceMatches(line, matches, data) ==
    IF matches = <<>> THEN line
    ELSE LET key == Strip(Head(matches))
             replaced ==
                 IF Join(key) \in DOMAIN data /\ data[Join(key)] # <<>>
                 THEN ReplaceAll(line, <<LB>> \o key \o <<RB>>, data[Join(key)])
                 ELSE line
         IN  ReplaceMatches(replaced, Tail(matches), data)

\* placeholder_filler lines 55-68 on the runs of one paragraph: a paragraph
\* without a run is left alone
inline_replace(para, data) ==
    IF para.runs = <<>> THEN para
    ELSE [para EXCEPT
             !.text = [i \in DOMAIN para.text |->
                          ReplaceMatches(para.text[i], TextPlaceholders(para.text),
                                         data)]]

\* lines 39-43: row.cells gives a merged cell once for each column it spans
RECURSIVE ReplaceInCell(_, _, _)
ReplaceInCell(paras, data, times) ==
    IF times = 0 THEN paras
    ELSE ReplaceInCell([i \in DOMAIN paras |-> inline_replace(paras[i], data)],
                       data, times - 1)

\* lines 35-43: the paragraphs of the body and of the cells of its tables
ReplaceInBody(body, data) ==
    [i \in DOMAIN body |->
        IF body[i].kind = "para" THEN inline_replace(body[i], data)
        ELSE [body[i] EXCEPT
                 !.cells = [rc \in DOMAIN body[i].cells |->
                               [body[i].cells[rc] EXCEPT
                                   !.paras = ReplaceInCell(@, data,
                                                 body[i].cells[rc].span)]]]]

\* placeholder_filler lines 20-52: what the call raises, the document it
\* holds when it ends and the file system it leaves
fill_placeholders(fsys, draft_path, data, output_filename) ==
    IF ~Exists(fsys, draft_path)
    THEN [raised |-> "FileNotFoundError", doc |-> NoneValue, fs |-> fsys]
    ELSE IF ~Opens(fsys, draft_path)
    THEN [raised |-> "PackageNotFoundError", doc |-> NoneValue, fs |-> fsys]
    ELSE LET filled == [fsys[draft_path] EXCEPT !.body = ReplaceInBody(@, data)]
         IN  [raised |-> "none", doc |-> filled,
              fs |-> [fsys EXCEPT ![ServiceOutPath(output_filename)] = filled]]

\* the schema lists of a draft: sections with and without their keys, of a
\* type the style file has and of one it lacks
DraftSchemas ==
    {<<>>,
     <<[type |-> "Heading 1", text |-> T("NDA")],
       [text |-> <<<<"Dear", SP, LB, "Name", RB>>, <<LB, SP, "Name", SP, RB>>>>]>>,
     <<[type |-> "Clause"],
       [type |-> "Paragraph",
        text |-> <<<<LB, LB, "Name", RB, RB, SP, LB, "Company", RB, SP,
                     LB, "Date", RB>>>>]>>}

\* the data dicts: every key with a value, a key with the empty string and a
\* key missing, and no key at all
DraftDatas ==
    {("Name" :> <<"Alice", SP, "Smith">>) @@ ("Company" :> <<"Acme">>)
        @@ ("Date" :> <<"2024-01-01">>),
     ("Name" :> <<LB, "Company", RB>>) @@ ("Company" :> <<>>),
     EmptyDict}

DraftNames == {"draft.docx", "final.docx"}

\* a draft written by hand: a placeholder in a paragraph, in a cell, and in a
\* cell that spans two columns
TableDraft ==
    DocxFile("header [Name]", "footer",
        <<TemplatePara("Normal", <<<<LB, "Name", RB>>>>, EmptyDict, EmptyDict),
          MergeRow(
              SetCellText(
                  SetCellText(add_table(2, 2, "template"), <<0, 0>>,
                              <<<<DP_LABEL>>, <<LB, "Company", RB>>>>),
                  <<1, 0>>, <<<<"Date:", SP, LB, "Name", RB>>>>),
              1)>>,
        EmptyDict)

DraftPaths ==
    Paths \cup {"table.docx"} \cup {WorkingPath(n) : n \in DraftNames}
    \cup {ServiceOutPath(n) : n \in DraftNames}

InitDraft ==
    /\ \E store \in {Absent, Corrupt, JsonFile(HandStyles)} :
          fs = [path \in DraftPaths |->
                   IF path \in Paths THEN InitialFs(store)[path]
                   ELSE IF path = "table.docx" THEN TableDraft ELSE Absent]
    /\ fs0 = [p \in Callers |-> fs]
    /\ InitCallers

\* the caller's state after a call that left outcome
AfterDraftCall(p, frame, outcome) ==
    /\ call' = [call EXCEPT ![p] = frame]
    /\ fs0' = [fs0 EXCEPT ![p] = fs]
    /\ fs' = outcome.fs
    /\ doc' = [doc EXCEPT ![p] = outcome.doc]
    /\ exc' = [exc EXCEPT ![p] = outcome.raised]
    /\ UNCHANGED <<style_json, source>>

\* document_builder.build_document, called
BuildDocument(p) ==
    /\ pc[p] = "idle"
    /\ \E tp \in TemplatePaths, dt \in {"NDA", "MOU"}, schema \in DraftSchemas,
          fn \in DraftNames :
          LET outcome == build_document(fs, tp, dt, schema, fn)
          IN  /\ AfterDraftCall(p, [template_path |-> tp, doc_type |-> dt,
                                    schema |-> schema, output_filename |-> fn],
                                outcome)
              /\ pc' = [pc EXCEPT ![p] =
                           IF outcome.raised = "none" THEN "drafted" ELSE "raised"]

\* placeholder_filler.fill_placeholders, called on the draft the caller has
\* built or on a document that lies at another path
FillPlaceholders(p) ==
    /\ pc[p] \in {"idle", "drafted"}
    /\ \E dp \in IF pc[p] = "drafted"
                 THEN {WorkingPath(call[p].output_filename)}
                 ELSE {"table.docx", "missing.docx", "corrupt.docx"},
          data \in DraftDatas, fn \in DraftNames :
          LET outcome == fill_placeholders(fs, dp, data, fn)
          IN  /\ AfterDraftCall(p, [draft_path |-> dp, data |-> data,
                                    output_filename |-> fn],
                                outcome)
              /\ pc' = [pc EXCEPT ![p] =
                           IF outcome.raised = "none" THEN "filled" ELSE "raised"]

NextDraft ==
    \E p \in Callers :
        \/ BuildDocument(p)
        \/ FillPlaceholders(p)

SpecDraft == InitDraft /\ [][NextDraft]_vars

(***************************************************************************)
(* Properties                                                              *)
(***************************************************************************)
SectionsOf(content) == Get(content, "sections", <<>>)
TypeOfEntry(entry) == Get(entry.data, "type", "Paragraph")
ContentOfEntry(entry) == Get(entry.data, "content", EmptyText)

\* the positions of the body elements a section (or the title) put there
ElementsFrom(body, src) == {i \in DOMAIN body : body[i].src = src}

\* the fields every entry of the default table carries
BaseFields == {"font", "size", "bold", "italic", "align", "spacing"}

HasEssentials(profile, fields) ==
    /\ EssentialNames \subseteq DOMAIN profile
    /\ \A n \in EssentialNames : fields \subseteq DOMAIN profile[n]

\* style_json is the profile the assembly uses
Resolved(p) == pc[p] \in {"assemble", "done"}

\* C1 as claimed: whatever the source (a reference template, a per-category
\* style file, the default table), the profile used for assembly holds the
\* five essential names, each with all nine StyleSpec fields populated.
C1_AllNineFieldsPopulated ==
    \A p \in Callers : Resolved(p) => HasEssentials(style_json[p], StyleFields)

\* C2 as claimed: no failure while deriving the style profile leaves the call
\* with an error; a call whose template opened is never ended by an exception.
C2_StyleResolutionNeverRaises ==
    \A p \in Callers :
        pc[p] = "raised" => ~Opens(fs0[p], call[p].template_path)

\* the template's only paragraph is a "Normal" one and its custom "Normal"
\* is Georgia 11: set on the paragraph's run, or defined on the named style
\* with a run that sets no font of its own
OnlyCustomNormalGeorgia(template) ==
    LET paras == Paragraphs(template.body)
    IN  /\ Len(paras) = 1
        /\ paras[1].style = "Normal"
        /\ \/ paras[1].runs = <<[name |-> "Georgia", size |-> 11]>>
           \/ /\ paras[1].runs \in {<<>>, <<EmptyDict>>}
              /\ Get(template.styles, "Normal", EmptyDict) =
                     [name |-> "Georgia", size |-> 11]

\* C3 as claimed: after extract_styles_from_template the saved profile holds
\* exactly the style names the paragraphs use plus the essential names; an
\* essential name no paragraph uses has the default entry, a name a paragraph
\* uses has an entry captured from a paragraph of that style; a template with
\* only a custom "Normal" Georgia/11 yields "Normal" Georgia/11 and
\* "Heading 1" Calibri Light/16.
C3_DefaultFillOnlyAdds ==
    \A p \in Callers : pc[p] = "done" =>
        LET template == fs0[p][call[p].template_path]
            paras == Paragraphs(template.body)
            used == {paras[i].style : i \in DOMAIN paras}
            profile == fs[call[p].save_path].value
        IN  /\ fs[call[p].save_path].kind = "json"
            /\ DOMAIN profile = used \cup EssentialNames
            /\ \A n \in EssentialNames \ used : profile[n] = get_default_styles[n]
            /\ \A n \in used :
                   \E i \in DOMAIN paras :
                       paras[i].style = n /\ profile[n] = CaptureStyle(paras[i])
            /\ OnlyCustomNormalGeorgia(template) =>
                   /\ profile["Normal"].font = "Georgia"
                   /\ profile["Normal"].size = 11
                   /\ profile["Heading 1"].font = "Calibri Light"
                   /\ profile["Heading 1"].size = 16

\* C4: in the saved document every section of type Paragraph or Normal is
\* there as paragraphs whose alignment is justify, whatever the profile holds.
C4_BodyTextJustified ==
    \A p \in Callers : pc[p] = "done" =>
        LET secs == SectionsOf(call[p].json_content)
            body == fs[OutPath(call[p].output_filename)].body
        IN  \A k \in DOMAIN secs :
                TypeOfEntry(secs[k]) \in {"Paragraph", "Normal"} =>
                    /\ ElementsFrom(body, secs[k].name) # {}
                    /\ \A i \in ElementsFrom(body, secs[k].name) :
                           /\ body[i].kind = "para"
                           /\ body[i].pf.alignment = "JUSTIFY"

\* a finished call whose profile stores "left" for Paragraph and has no
\* Normal entry at all, with a Paragraph and a Normal section
C4_Witness ==
    \E p \in Callers :
        /\ pc[p] = "done"
        /\ style_json[p] = HandStyles
        /\ \E k \in DOMAIN SectionsOf(call[p].json_content) :
               SectionsOf(call[p].json_content)[k].name = "intro"
        /\ \E k \in DOMAIN SectionsOf(call[p].json_content) :
               SectionsOf(call[p].json_content)[k].name = "body"

\* C5: with a title T the body starts with the one title paragraph, a section
\* is left out exactly when it is a "Heading 1" whose content is T; without a
\* title key no section is left out.
C5_TitleOnceOnlyDuplicatesSkipped ==
    \A p \in Callers : pc[p] = "done" =>
        LET c == call[p].json_content
            secs == SectionsOf(c)
            body == fs[OutPath(call[p].output_filename)].body
        IN  /\ "title" \in DOMAIN c =>
                /\ body # <<>>
                /\ body[1].kind = "para"
                /\ body[1].src = "title"
                /\ body[1].text = c.title
                /\ ElementsFrom(body, "title") = {1}
                /\ \A k \in DOMAIN secs :
                       ElementsFrom(body, secs[k].name) = {} <=>
                           (TypeOfEntry(secs[k]) = "Heading 1"
                            /\ ContentOfEntry(secs[k]) = c.title)
            /\ "title" \notin DOMAIN c =>
                /\ ElementsFrom(body, "title") = {}
                /\ \A k \in DOMAIN secs : ElementsFrom(body, secs[k].name) # {}

\* a finished call with title "NDA", a Heading 1 "NDA" section (left out) and
\* a Paragraph "NDA" section (kept)
C5_Witness ==
    \E p \in Callers :
        /\ pc[p] = "done"
        /\ "title" \in DOMAIN call[p].json_content
        /\ LET secs == SectionsOf(call[p].json_content)
               body == fs[OutPath(call[p].output_filename)].body
           IN  /\ Len(secs) = 2
               /\ {secs[1].name, secs[2].name} = {"title_again", "title_text"}
               /\ Len(body) = 2

\* the place of an element's origin in the content: 0 for the title
OriginIndex(content, src) ==
    IF src = "title" THEN 0
    ELSE CHOOSE k \in DOMAIN SectionsOf(content) : SectionsOf(content)[k].name = src

\* C6: the body elements follow the order of the sections mapping, after the
\* title: an element of an earlier section never comes after one of a later.
C6_SectionsInInsertionOrder ==
    \A p \in Callers : pc[p] = "done" =>
        LET c == call[p].json_content
            body == fs[OutPath(call[p].output_filename)].body
        IN  \A i, j \in DOMAIN body :
                i < j => OriginIndex(c, body[i].src) <= OriginIndex(c, body[j].src)

\* a finished NDA call: title, then the two signature paragraphs, then a
\* paragraph
C6_Witness ==
    \E p \in Callers :
        /\ pc[p] = "done"
        /\ call[p].doc_type = "NDA"
        /\ "title" \in DOMAIN call[p].json_content
        /\ LET secs == SectionsOf(call[p].json_content)
               body == fs[OutPath(call[p].output_filename)].body
           IN  /\ Len(secs) = 2
               /\ secs[1].name = "signatures"
               /\ secs[2].name = "intro"
               /\ Len(body) = 4
               /\ body[4].src = "intro"

\* the tokens that name the receiving party in the drawn texts
ReceivingTokens == {RP_LABEL, "Bob", "Erin"}

\* C7 as claimed: for NDA and every raw text the block is one Disclosing Party
\* paragraph ending in the signature rule and one Date paragraph, and neither
\* holds a Receiving Party label or value.
C7_NdaNeverShowsReceivingParty ==
    \A p \in Callers : (pc[p] = "done" /\ call[p].doc_type = "NDA") =>
        LET body == doc[p].body
        IN  /\ Len(body) = 2
            /\ body[1].kind = "para" /\ body[2].kind = "para"
            /\ Len(body[1].text) = 4
            /\ body[1].text[1] = <<DP_LABEL>>
            /\ body[1].text[4] = <<RULE>>
            /\ body[2].text = T(DATE_LINE)
            /\ \A i \in 1..2 : \A l \in DOMAIN body[i].text :
                   Range(body[i].text[l]) \cap ReceivingTokens = {}

\* the name the raw text gives a label when at most one line carries it and
\* that line carries no other label
SoleName(text, label) ==
    IF \A l \in DOMAIN text : label \notin Range(text[l]) THEN <<>>
    ELSE LET l == CHOOSE l \in DOMAIN text : label \in Range(text[l])
         IN  Strip(SelectSeq(text[l], LAMBDA tok : tok # label))

\* every label is on at most one line of the text, alone among the labels
PlainText(text) ==
    /\ \A l \in DOMAIN text : ~(DP_LABEL \in Range(text[l]) /\ RP_LABEL \in Range(text[l]))
    /\ \A l, m \in DOMAIN text :
           l # m => /\ ~(DP_LABEL \in Range(text[l]) /\ DP_LABEL \in Range(text[m]))
                    /\ ~(RP_LABEL \in Range(text[l]) /\ RP_LABEL \in Range(text[m]))

\* C8: for Contract, MOU, IP_Agreement and Offer_Letter the block is one 2x2
\* table: row 0 holds the Disclosing Party block left and the Receiving Party
\* block right, each label, parsed name (or ""), blank line, rule; row 1 is
\* one cell spanning both columns that holds the one Date line.
C8_TwoPartyTable ==
    \A p \in Callers :
        (pc[p] = "done" /\ call[p].doc_type \in DocTypes \ {"NDA"}) =>
            LET body == doc[p].body
                t == body[1]
                text == call[p].signature_content
                parsed == ParseParties(text, <<>>, <<>>)
                left == t.cells[<<0, 0>>]
                right == t.cells[<<0, 1>>]
                date == t.cells[<<1, 0>>]
            IN  /\ Len(body) = 1
                /\ t.kind = "table"
                /\ DOMAIN t.widths = {0, 1}
                /\ DOMAIN t.cells = {<<0, 0>>, <<0, 1>>, <<1, 0>>}
                /\ left.span = 1 /\ right.span = 1 /\ date.span = 2
                /\ Len(left.paras) = 1 /\ Len(right.paras) = 1 /\ Len(date.paras) = 1
                /\ left.paras[1].text =
                       <<<<DP_LABEL>>, parsed.disclosing_party, <<>>, <<RULE>>>>
                /\ right.paras[1].text =
                       <<<<RP_LABEL>>, parsed.receiving_party, <<>>, <<RULE>>>>
                /\ date.paras[1].text = T(DATE_LINE)
                /\ PlainText(text) =>
                       /\ parsed.disclosing_party = SoleName(text, DP_LABEL)
                       /\ parsed.receiving_party = SoleName(text, RP_LABEL)

\* an MOU whose text names Alice and Bob on two lines: Alice left, Bob right
C8_Witness ==
    \E p \in Callers :
        /\ pc[p] = "done"
        /\ "signature_content" \in DOMAIN call[p]
        /\ call[p].doc_type = "MOU"
        /\ call[p].signature_content =
               <<<<DP_LABEL, SP, "Alice">>, <<RP_LABEL, SP, "Bob">>>>
        /\ doc[p].body[1].cells[<<0, 0>>].paras[1].text[2] = <<"Alice">>
        /\ doc[p].body[1].cells[<<0, 1>>].paras[1].text[2] = <<"Bob">>
        /\ doc[p].body[1].cells[<<1, 0>>].span = 2

\* what the content document can put into the body
ContentOrigins(content) ==
    {"title"} \cup {SectionsOf(content)[k].name : k \in DOMAIN SectionsOf(content)}

\* C9: the saved document has the template's header and footer, and its body
\* holds no element of the template's body, only elements the content put in.
C9_FrameKeptBodyReplaced ==
    \A p \in Callers : pc[p] = "done" =>
        LET tpl == fs0[p][call[p].template_path]
            out == fs[OutPath(call[p].output_filename)]
        IN  /\ out.kind = "docx"
            /\ out.header = tpl.header
            /\ out.footer = tpl.footer
            /\ \A i \in DOMAIN out.body :
                   /\ out.body[i] \notin Range(tpl.body)
                   /\ out.body[i].src \in ContentOrigins(call[p].json_content)

\* a finished call on the user template (header, footer, two body
\* paragraphs) that put two elements into the body
C9_Witness ==
    \E p \in Callers :
        /\ pc[p] = "done"
        /\ call[p].template_path = "user.docx"
        /\ Len(fs0[p]["user.docx"].body) = 2
        /\ Len(fs[OutPath(call[p].output_filename)].body) = 2
        /\ fs[OutPath(call[p].output_filename)].header =
               "USER TEMPLATE HEADER - CONFIDENTIAL"

\* the call has gone past lines 188-194
PastTemplateCheck(p) == pc[p] \notin {"idle", "open_template"}

\* C10: a call whose template path does not exist ends with FileNotFoundError
\* and nothing else happened: no style was resolved, no Document was made and
\* the file system (temp style file and output path included) is as it was.
C10_MissingTemplateIsFatalAndClean ==
    \A p \in Callers :
        (PastTemplateCheck(p) /\ ~Exists(fs0[p], call[p].template_path)) =>
            /\ pc[p] = "raised"
            /\ exc[p] = "FileNotFoundError"
            /\ fs = fs0[p]
            /\ style_json[p] = NoneValue
            /\ source[p] = "none"
            /\ doc[p] = NoneValue

\* a call with a missing template, a readable reference and an old artifact
\* at its output path has raised
C10_Witness ==
    \E p \in Callers :
        /\ pc[p] = "raised"
        /\ exc[p] = "FileNotFoundError"
        /\ call[p].template_path = "missing.docx"
        /\ call[p].reference_doc_path = "user.docx"
        /\ call[p].output_filename = "out2.docx"
        /\ fs[OutPath("out2.docx")] = OldArtifact

\* the call has been made and has not returned
Running(p) == pc[p] \notin {"idle", "done", "raised"}

\* the document the call builds from its arguments and its profile
FullArtifact(p) ==
    LET tpl == fs0[p][call[p].template_path]
    IN  DocxFile(tpl.header, tpl.footer,
                 Assemble(<<>>, call[p].json_content, style_json[p],
                          call[p].doc_type),
                 tpl.styles)

\* C11: a call that has raised (at the template load, at the style
\* resolution or in the sections loop) or is still running has left the file
\* at its output path as it was; a call that has returned has written the
\* full artifact there.
C11_RaiseLeavesOutputUntouched ==
    \A p \in Callers :
        LET output_path == OutPath(call[p].output_filename)
        IN  /\ (pc[p] = "raised" \/ Running(p)) =>
                   fs[output_path] = fs0[p][output_path]
            /\ pc[p] = "done" => fs[output_path] = FullArtifact(p)

\* a call with a title whose sections loop raised, and the old artifact is
\* still at its output path
C11_Witness ==
    \E p \in Callers :
        /\ pc[p] = "raised"
        /\ exc[p] = "AttributeError"
        /\ "title" \in DOMAIN call[p].json_content
        /\ call[p].output_filename = "out2.docx"
        /\ fs[OutPath("out2.docx")] = OldArtifact

\* the expected shape: a "sections" mapping whose entries are objects with
\* type and content
WellFormed(json_content) ==
    /\ "sections" \in DOMAIN json_content
    /\ IsMapping(json_content.sections)
    /\ \A i \in DOMAIN json_content.sections :
           /\ IsObject(json_content.sections[i].data)
           /\ {"type", "content"} \subseteq DOMAIN json_content.sections[i].data

\* C12 as claimed: a call given a content document that has not the expected
\* shape never returns with an artifact; every call that returns was given a
\* well-formed content document.
C12_MalformedContentFails ==
    \A p \in Callers : pc[p] = "done" => WellFormed(call[p].json_content)

\* the section types the profile's essential names stand for
RecognizedTypes == EssentialNames

\* C13 as claimed: the paragraph of a section whose type is not recognized is
\* the paragraph the same section gives with type "Normal", alignment
\* included.
C13_UnknownTypeRenderedAsNormal ==
    \A p \in Callers : pc[p] = "done" =>
        LET secs == SectionsOf(call[p].json_content)
            body == fs[OutPath(call[p].output_filename)].body
        IN  \A k \in DOMAIN secs :
                TypeOfEntry(secs[k]) \notin RecognizedTypes =>
                    /\ ElementsFrom(body, secs[k].name) # {}
                    /\ \A i \in ElementsFrom(body, secs[k].name) :
                           body[i] = apply_style_to_paragraph(
                                         add_paragraph(ContentOfEntry(secs[k]),
                                                       secs[k].name),
                                         SectionStyle(style_json[p], "Normal"))

\* the profile extract_styles_from_template derives from the caller's own
\* reference document
OwnProfile(p) == ExtractedProfile(fs0[p][call[p].reference_doc_path])

\* C14 as claimed: under every interleaving of two calls with distinct output
\* filenames and different references, each call resolves the profile of its
\* own reference and saves the artifact it would have saved alone.
C14_ConcurrentCallsDoNotInterfere ==
    \A p \in Callers :
        /\ Resolved(p) => (source[p] = "reference" /\ style_json[p] = OwnProfile(p))
        /\ pc[p] = "done" =>
               fs[OutPath(call[p].output_filename)].body =
                   Assemble(<<>>, call[p].json_content, OwnProfile(p),
                            call[p].doc_type)

\* C15: a call that returns has written its artifact to
\* DOC_OUTPUT_DIR/output_filename whatever was there; the same call made
\* again ends the same way, builds the same document and leaves the file
\* system as the first call left it.
C15_IdempotentAndOverwriting ==
    /\ pc[1] = "done" =>
           fs[OutPath(call[1].output_filename)] = FullArtifact(1)
    /\ Ended(2) =>
           /\ call[2] = call[1]
           /\ pc[2] = pc[1]
           /\ exc[2] = exc[1]
           /\ style_json[2] = style_json[1]
           /\ doc[2] = doc[1]
           /\ fs = fs0[2]

\* the second of two calls with a reference, onto an output path that held
\* an old artifact before the first, has returned
C15_Witness ==
    /\ pc[1] = "done"
    /\ pc[2] = "done"
    /\ call[2].reference_doc_path = "georgia.docx"
    /\ call[2].output_filename = "out2.docx"
    /\ fs0[1][OutPath("out2.docx")] = OldArtifact
    /\ fs[OutPath("out2.docx")] # OldArtifact
    /\ fs[OutPath("out2.docx")].body # <<>>

\* C16 as claimed: with the user template as template and as reference the
\* artifact has the template's header and footer and the body the default
\* table of get_default_styles gives.
C16_UserTemplateGivesFrameOnly ==
    \A p \in Callers :
        (/\ pc[p] = "done"
         /\ call[p].template_path = "user.docx"
         /\ call[p].reference_doc_path = "user.docx") =>
            LET out == fs[OutPath(call[p].output_filename)]
            IN  /\ out.header = UserTemplate.header
                /\ out.footer = UserTemplate.footer
                /\ out.body = Assemble(<<>>, call[p].json_content,
                                       get_default_styles, call[p].doc_type)

\* the call has gone past lines 54-63
PastInputValidation(p) == pc[p] \notin {"idle", "validate_inputs"}

\* C17: a call of generate_complete_document whose doc_type is outside
\* SUPPORTED_DOC_TYPES ends with DocumentGenerationError at the input
\* validation: no collaborator and no build was called, no template was
\* prepared and the file system is as it was.
C17_UnsupportedTypeRejectedFirst ==
    \A p \in Callers :
        (PastInputValidation(p) /\ call[p].doc_type \notin DocTypes) =>
            /\ pc[p] = "raised"
            /\ exc[p] = "DocumentGenerationError"
            /\ call[p].calls = <<>>
            /\ call[p].template_path = NoRef
            /\ fs = fs0[p]

\* a call for "nda" (the lower-case spelling), in English, with a scenario
\* and an uploaded template has been rejected
C17_Witness ==
    \E p \in Callers :
        /\ pc[p] = "raised"
        /\ call[p].doc_type = "nda"
        /\ call[p].language = "en"
        /\ Strip(call[p].scenario) # <<>>
        /\ call[p].template_file_content = UserTemplate
        /\ call[p].calls = <<>>

\* the collaborators whose exception ends the call
Collaborators ==
    {"extract_metadata_from_scenario", "generate_document_content_with_gemini",
     "validate_document_content"}

\* the inputs pass lines 54-63 and no collaborator has failed (language is
\* the one the call was given: only a failed translation changes it)
AllSucceeded(frame) ==
    /\ frame.doc_type \in DocTypes
    /\ frame.language \in DOMAIN SUPPORTED_LANGUAGES
    /\ Strip(frame.scenario) # <<>>
    /\ frame.failed \notin Collaborators
    /\ frame.translation_status # "Failed, used English"

\* C18 as claimed: with a supported doc_type, a supported language, a
\* non-blank scenario and collaborators that all succeed, the call does not
\* end with DocumentGenerationError: the build accepts its call and a
\* (document path, metadata) pair is returned.
C18_SupportedRequestReturnsPair ==
    \A p \in Callers :
        (pc[p] = "raised" /\ PastInputValidation(p)) => ~AllSucceeded(call[p])

\* the reference is given, exists and extract_styles_from_template reads it
ExtractionSucceeds(p) ==
    /\ call[p].reference_doc_path # NoRef
    /\ Exists(fs0[p], call[p].reference_doc_path)
    /\ Opens(fs0[p], call[p].reference_doc_path)

\* C19: the profile the assembly uses is the one extracted from the
\* reference when extraction succeeds, whatever the style store holds;
\* otherwise the content of <doc_type lower-cased>_style.json when that file
\* exists, and the default table only when it does not.  A call ends at the
\* style resolution only where that file exists and cannot be read.
C19_StyleSourcePrecedence ==
    \A p \in Callers :
        LET style_path == StylePath(call[p].doc_type)
        IN  /\ Resolved(p) =>
                   IF ExtractionSucceeds(p)
                   THEN /\ source[p] = "reference"
                        /\ style_json[p] = OwnProfile(p)
                   ELSE IF Exists(fs0[p], style_path)
                   THEN /\ source[p] = "style_file"
                        /\ style_json[p] = fs0[p][style_path].value
                   ELSE /\ source[p] = "default"
                        /\ style_json[p] = get_default_styles
            /\ (pc[p] = "raised" /\ exc[p] = "JSONDecodeError") =>
                   /\ ~ExtractionSucceeds(p)
                   /\ Exists(fs0[p], style_path)
                   /\ ~Parses(fs0[p][style_path])

\* a finished NDA call with the Georgia reference while nda_style.json holds
\* the hand-written profile: the extracted profile was used
C19_Witness ==
    \E p \in Callers :
        /\ pc[p] = "done"
        /\ call[p].doc_type = "NDA"
        /\ call[p].reference_doc_path = "georgia.docx"
        /\ fs0[p][StylePath("NDA")] = JsonFile(HandStyles)
        /\ source[p] = "reference"
        /\ style_json[p]["Normal"].font = "Georgia"

\* the first paragraph of the body that has the style name
FirstWithStyle(paras, name) ==
    paras[CHOOSE i \in DOMAIN paras :
              /\ paras[i].style = name
              /\ \A j \in DOMAIN paras : paras[j].style = name => i <= j]

\* C20: for every style name the template's paragraphs use, the saved entry
\* is the one captured from the first paragraph, in document order, of that
\* name.
C20_FirstOccurrenceWins ==
    \A p \in Callers : pc[p] = "done" =>
        LET paras == Paragraphs(fs0[p][call[p].template_path].body)
            profile == fs[call[p].save_path].value
        IN  \A i \in DOMAIN paras :
                profile[paras[i].style] =
                    CaptureStyle(FirstWithStyle(paras, paras[i].style))

\* an extraction from a template with two paragraphs of one style name whose
\* captured entries differ: the saved entry is the first one
C20_Witness ==
    \E p \in Callers :
        /\ pc[p] = "done"
        /\ "save_path" \in DOMAIN call[p]
        /\ LET paras == Paragraphs(fs0[p][call[p].template_path].body)
           IN  /\ Len(paras) = 2
               /\ paras[1].style = paras[2].style
               /\ CaptureStyle(paras[1]) # CaptureStyle(paras[2])
               /\ fs[call[p].save_path].value[paras[1].style] =
                      CaptureStyle(paras[1])

\* the attribute is not set on the run or on the paragraph format
Unset(dict, attribute) == attribute \notin DOMAIN dict

\* C21: the entry captured for a style name from its first paragraph carries
\* all nine fields; an attribute that is not set takes its fallback (size
\* 12, bold, italic and underline false, alignment left also for a value
\* that is none of the four, line spacing 1.0, indents 0), an attribute that
\* is set to a value is captured as it is, and a paragraph without runs gets
\* every font fallback.
C21_UnsetAttributesTakeFallbacks ==
    \A p \in Callers : pc[p] = "done" =>
        LET paras == Paragraphs(fs0[p][call[p].template_path].body)
            profile == fs[call[p].save_path].value
        IN  \A i \in DOMAIN paras :
                LET para == FirstWithStyle(paras, paras[i].style)
                    entry == profile[paras[i].style]
                    run == IF para.runs = <<>> THEN EmptyDict ELSE para.runs[1]
                IN  /\ DOMAIN entry = StyleFields
                    /\ Unset(run, "size") => entry.size = 12
                    /\ Unset(run, "bold") => entry.bold = FALSE
                    /\ Unset(run, "italic") => entry.italic = FALSE
                    /\ Unset(run, "underline") => entry.underline = FALSE
                    /\ Unset(para.pf, "alignment") => entry.align = "left"
                    /\ (~Unset(para.pf, "alignment")
                        /\ para.pf.alignment \notin {"LEFT", "CENTER", "RIGHT", "JUSTIFY"}) =>
                           entry.align = "left"
                    /\ Unset(para.pf, "line_spacing") => entry.spacing = 10
                    /\ Unset(para.pf, "left_indent") => entry.indent_left = 0
                    /\ Unset(para.pf, "right_indent") => entry.indent_right = 0
                    /\ para.runs = <<>> =>
                           /\ entry.font = "Default"
                           /\ entry.size = 12
                           /\ entry.bold = FALSE
                           /\ entry.italic = FALSE
                           /\ entry.underline = FALSE
                    /\ (~Unset(run, "size") /\ run.size # 0) => entry.size = run.size
                    /\ ~Unset(run, "bold") => entry.bold = run.bold
                    /\ (~Unset(para.pf, "alignment")
                        /\ para.pf.alignment \in DOMAIN ALIGNMENT_MAP) =>
                           entry.align = ALIGNMENT_MAP[para.pf.alignment]
                    /\ (~Unset(para.pf, "left_indent") /\ para.pf.left_indent # 0) =>
                           entry.indent_left = para.pf.left_indent

\* an extraction from a template with a paragraph without runs and a
\* paragraph whose alignment is none of the four and whose left indent is
\* not set
C21_Witness ==
    \E p \in Callers :
        /\ pc[p] = "done"
        /\ "save_path" \in DOMAIN call[p]
        /\ LET paras == Paragraphs(fs0[p][call[p].template_path].body)
               profile == fs[call[p].save_path].value
           IN  /\ Len(paras) = 2
               /\ paras[1].runs = <<>>
               /\ paras[2].style # paras[1].style
               /\ "alignment" \in DOMAIN paras[2].pf
               /\ paras[2].pf.alignment = "DISTRIBUTE"
               /\ profile[paras[1].style].font = "Default"
               /\ profile[paras[2].style].align = "left"
               /\ profile[paras[2].style].indent_left = 0
               /\ profile[paras[2].style].indent_right = 18

\* the loop of the sections has run to its end
LoopEnded(p) ==
    pc[p] = "add_sections" /\ call[p].next > Len(SectionsOfCall(call[p]))

\* the alignment apply_style_to_paragraph sets for a stored entry
StoredAlignment(entry) ==
    LET a == Get(entry, "align", "left")
    IN  IF a \in DOMAIN ALIGN_MAP THEN ALIGN_MAP[a] ELSE "LEFT"

\* C22: while the title and the sections are added the profile stays what it
\* was right after resolution; an element that is not a Paragraph or Normal
\* section and resolves to an entry (the title, a signature paragraph, an
\* unknown type falling back to "Normal") has the alignment stored there, also after a Paragraph or
\* Normal section was forced to justify; the body built turn by turn is the
\* body the assembly gives.
C22_ProfileNotMutated ==
    \A p \in Callers : pc[p] \in {"add_title", "add_sections"} =>
        LET secs == SectionsOfCall(call[p])
            body == doc[p].body
            profile == call[p].resolved
        IN  /\ style_json[p] = profile
            /\ \A k \in DOMAIN secs :
                   (/\ k < call[p].next
                    /\ TypeOfEntry(secs[k]) \notin {"Paragraph", "Normal"}) =>
                       \A i \in ElementsFrom(body, secs[k].name) :
                           body[i].kind = "para" =>
                           body[i].pf.alignment =
                               StoredAlignment(StyleFor(profile, TypeOfEntry(secs[k])))
            /\ \A i \in ElementsFrom(body, "title") :
                   body[i].pf.alignment =
                       StoredAlignment(StyleFor(profile, "Heading 1"))
            /\ LoopEnded(p) =>
                   body = Assemble(<<>>, call[p].json_content, profile,
                                   call[p].doc_type)

\* a loop that ended on a profile whose only entry is a right-aligned
\* "Normal": the Normal section is justified and the unknown-type section
\* after it is right-aligned
C22_Witness ==
    \E p \in Callers :
        /\ LoopEnded(p)
        /\ call[p].resolved = NormalOnlyStyles
        /\ LET secs == SectionsOfCall(call[p])
           IN  /\ Len(secs) = 2
               /\ secs[1].name = "body"
               /\ secs[2].name = "clause"
        /\ "title" \notin DOMAIN call[p].json_content
        /\ doc[p].body[1].pf.alignment = "JUSTIFY"
        /\ doc[p].body[2].pf.alignment = "RIGHT"
        /\ style_json[p]["Normal"].align = "right"

\* the literal defaults of apply_style_to_paragraph, spacing in tenths
LiteralDefaults ==
    [font |-> "Times New Roman", size |-> 12, bold |-> FALSE, italic |-> FALSE,
     underline |-> FALSE, align |-> "left", spacing |-> 10,
     indent_left |-> 0, indent_right |-> 0]

\* the entry the fallback chain names: profile[name], else profile["Normal"],
\* else the literal defaults
ChainEntry(profile, name) ==
    IF name \in DOMAIN profile THEN profile[name]
    ELSE IF "Normal" \in DOMAIN profile THEN profile["Normal"]
    ELSE LiteralDefaults

\* the font and the paragraph format of an element are those of the entry, a
\* field the entry lacks taking the literal default
FontOf(element, entry) ==
    /\ element.runs # <<>>
    /\ element.runs[1].name = Get(entry, "font", LiteralDefaults.font)
    /\ element.runs[1].size = Get(entry, "size", LiteralDefaults.size)
    /\ element.runs[1].bold = Get(entry, "bold", LiteralDefaults.bold)
    /\ element.runs[1].italic = Get(entry, "italic", LiteralDefaults.italic)
    /\ element.runs[1].underline = Get(entry, "underline", LiteralDefaults.underline)
    /\ element.pf.line_spacing = Get(entry, "spacing", LiteralDefaults.spacing)
    /\ element.pf.left_indent = Get(entry, "indent_left", LiteralDefaults.indent_left)
    /\ element.pf.right_indent = Get(entry, "indent_right", LiteralDefaults.indent_right)

\* the style name an element of the body is looked up under
LookupName(frame, src) ==
    IF src = "title" THEN "Heading 1"
    ELSE LET secs == SectionsOfCall(frame)
             k == CHOOSE k \in DOMAIN secs : secs[k].name = src
         IN  TypeOfEntry(secs[k])

\* C23 as stated: every paragraph emitted so far carries the font and the
\* format of the entry the chain names, and is formatted with the literal
\* defaults, left-aligned, when the profile has neither the name nor "Normal".
C23_AsClaimed ==
    \A p \in Callers : pc[p] \in {"add_title", "add_sections"} =>
        \A i \in DOMAIN doc[p].body :
            LET element == doc[p].body[i]
                entry == ChainEntry(call[p].resolved, LookupName(call[p], element.src))
            IN  element.kind = "para" =>
                    /\ FontOf(element, entry)
                    /\ entry = LiteralDefaults => element.pf.alignment = "LEFT"

\* C23 (amended): every paragraph emitted so far carries the font and the
\* format of the entry the chain names (the literal defaults when the profile
\* has neither the name nor "Normal"); its alignment is the entry's, except
\* that a section of type "Paragraph" or "Normal" is justified whatever the
\* entry or the literal default says.
C23_LookupChain ==
    \A p \in Callers : pc[p] \in {"add_title", "add_sections"} =>
        \A i \in DOMAIN doc[p].body :
            LET element == doc[p].body[i]
                name == LookupName(call[p], element.src)
                entry == ChainEntry(call[p].resolved, name)
            IN  element.kind = "para" =>
                    /\ FontOf(element, entry)
                    /\ element.pf.alignment =
                           IF element.src # "title" /\ name \in {"Paragraph", "Normal"}
                           THEN "JUSTIFY"
                           ELSE StoredAlignment(entry)

\* a profile without "Normal" and without the names asked for: the title and
\* the unknown-type section take the literal defaults left-aligned, the Normal
\* section takes them justified
C23_Witness ==
    \E p \in Callers :
        /\ LoopEnded(p)
        /\ call[p].resolved = HandStyles
        /\ "title" \in DOMAIN call[p].json_content
        /\ LET secs == SectionsOfCall(call[p])
               body == doc[p].body
           IN  /\ Len(secs) = 2 /\ Len(body) = 3
               /\ secs[1].name = "clause"
               /\ secs[2].name = "body"
               /\ body[1].runs[1].name = "Times New Roman"
               /\ body[1].pf.alignment = "LEFT"
               /\ body[2].runs[1].name = "Times New Roman"
               /\ body[2].runs[1].size = 12
               /\ body[2].pf.alignment = "LEFT"
               /\ body[3].runs[1].name = "Times New Roman"
               /\ body[3].pf.alignment = "JUSTIFY"

\* the label is the prefix of the line, leading blanks aside
StartsWith(line, label) == LStrip(line) # <<>> /\ Head(LStrip(line)) = label

\* what is left of "<Label>: <value>" after the label, trimmed
ValueAfter(line) == Strip(Tail(LStrip(line)))

\* the party values a parse by prefix gives: the last line starting with a
\* label decides that party, any other line changes nothing
RECURSIVE PrefixParse(_, _, _)
PrefixParse(lines, disclosing_party, receiving_party) ==
    IF lines = <<>>
    THEN [disclosing_party |-> disclosing_party,
          receiving_party |-> receiving_party]
    ELSE IF StartsWith(Head(lines), DP_LABEL)
    THEN PrefixParse(Tail(lines), ValueAfter(Head(lines)), receiving_party)
    ELSE IF StartsWith(Head(lines), RP_LABEL)
    THEN PrefixParse(Tail(lines), disclosing_party, ValueAfter(Head(lines)))
    ELSE PrefixParse(Tail(lines), disclosing_party, receiving_party)

\* the party values the emitted block shows
ShownDisclosing(body) ==
    IF body[1].kind = "para" THEN body[1].text[2]
    ELSE body[1].cells[<<0, 0>>].paras[1].text[2]

ShownReceiving(body) == body[1].cells[<<0, 1>>].paras[1].text[2]

\* C24 as claimed: the party values of the emitted block are those of a parse
\* by prefix: only a line that starts with "Disclosing Party:" or
\* "Receiving Party:" sets a value, the trimmed rest of that line, and a line
\* that holds a label later on changes neither value.
C24_PrefixParsing ==
    \A p \in Callers : pc[p] = "done" =>
        LET parsed == PrefixParse(SplitLines(call[p].signature_content), <<>>, <<>>)
            body == doc[p].body
        IN  /\ ShownDisclosing(body) = parsed.disclosing_party
            /\ body[1].kind = "table" =>
                   ShownReceiving(body) = parsed.receiving_party

\* no line of the text carries the label
NoLabel(text, label) == \A l \in DOMAIN text : label \notin Range(text[l])

\* a party block in full: the label, the value, a blank line, the rule
FullBlock(text, label) ==
    /\ Len(text) = 4
    /\ text[1] = <<label>>
    /\ text[3] = <<>>
    /\ text[4] = <<RULE>>

\* C25: for every raw text, the empty one and one without a label included,
\* add_signature_section returns without an exception and the block is there
\* in full: for NDA the Disclosing Party paragraph and the Date paragraph,
\* otherwise the table with both party blocks and the Date cell; a party no
\* line names is shown with the empty string as its value.
C25_UnparsedPartyShownEmpty ==
    \A p \in Callers : pc[p] = "done" =>
        LET text == call[p].signature_content
            body == doc[p].body
        IN  /\ exc[p] = "none"
            /\ IF IsNDA(call[p].doc_type)
               THEN /\ Len(body) = 2
                    /\ body[1].kind = "para" /\ body[2].kind = "para"
                    /\ FullBlock(body[1].text, DP_LABEL)
                    /\ body[2].text = T(DATE_LINE)
               ELSE /\ Len(body) = 1
                    /\ body[1].kind = "table"
                    /\ DOMAIN body[1].cells = {<<0, 0>>, <<0, 1>>, <<1, 0>>}
                    /\ FullBlock(body[1].cells[<<0, 0>>].paras[1].text, DP_LABEL)
                    /\ FullBlock(body[1].cells[<<0, 1>>].paras[1].text, RP_LABEL)
                    /\ body[1].cells[<<1, 0>>].paras[1].text = T(DATE_LINE)
                    /\ NoLabel(text, RP_LABEL) => ShownReceiving(body) = <<>>
            /\ NoLabel(text, DP_LABEL) => ShownDisclosing(body) = <<>>

\* the empty text given for a Contract: the table is there and both party
\* values are empty
C25_Witness ==
    \E p \in Callers :
        /\ pc[p] = "done"
        /\ "signature_content" \in DOMAIN call[p]
        /\ call[p].signature_content = EmptyText
        /\ call[p].doc_type = "Contract"
        /\ doc[p].body[1].kind = "table"
        /\ ShownDisclosing(doc[p].body) = <<>>
        /\ ShownReceiving(doc[p].body) = <<>>
        /\ doc[p].body[1].cells[<<0, 1>>].paras[1].text[4] = <<RULE>>

\* the four borders of the cell are explicitly set to nil
BordersSuppressed(cell) ==
    /\ DOMAIN cell.borders = BorderNames
    /\ \A b \in BorderNames : cell.borders[b] = "nil"

\* C26: in the finished two-party table every cell, the merged Date cell
\* included, has its top, left, bottom and right border set to nil, and the
\* two columns have the same width, the three inches the code gives them.
C26_BordersSuppressedEqualWidths ==
    \A p \in Callers :
        (pc[p] = "done" /\ ~IsNDA(call[p].doc_type)) =>
            LET t == doc[p].body[1]
            IN  /\ t.kind = "table"
                /\ \A rc \in DOMAIN t.cells : BordersSuppressed(t.cells[rc])
                /\ DOMAIN t.widths = {0, 1}
                /\ t.widths[0] = t.widths[1]
                /\ t.widths[0] = "3in"

\* a finished table for an MOU: the Date cell spans both columns, holds the
\* Date line and has no border; the party cells hold their text
C26_Witness ==
    \E p \in Callers :
        /\ pc[p] = "done"
        /\ "signature_content" \in DOMAIN call[p]
        /\ call[p].doc_type = "MOU"
        /\ LET t == doc[p].body[1]
           IN  /\ t.cells[<<1, 0>>].span = 2
               /\ t.cells[<<1, 0>>].paras[1].text = T(DATE_LINE)
               /\ t.cells[<<1, 0>>].borders["bottom"] = "nil"
               /\ t.cells[<<0, 0>>].paras[1].text[2] = <<"Alice">>
               /\ t.cells[<<0, 1>>].borders["left"] = "nil"
               /\ t.widths[1] = "3in"

\* the paragraph carries the font, size, alignment and spacing of the entry
CarriesStyle(para, entry) ==
    /\ para.runs # <<>>
    /\ {"name", "size"} \subseteq DOMAIN para.runs[1]
    /\ {"alignment", "line_spacing"} \subseteq DOMAIN para.pf
    /\ para.runs[1].name = Get(entry, "font", LiteralDefaults.font)
    /\ para.runs[1].size = Get(entry, "size", LiteralDefaults.size)
    /\ para.pf.alignment = StoredAlignment(entry)
    /\ para.pf.line_spacing = Get(entry, "spacing", LiteralDefaults.spacing)

\* the paragraphs of the block that hold party text or the Date line
TextParagraphs(body) ==
    IF body[1].kind = "para" THEN {body[i] : i \in DOMAIN body}
    ELSE {body[1].cells[rc].paras[i] :
              rc \in DOMAIN body[1].cells, i \in {1}}

\* the NDA layout alone: both paragraphs carry the signature style
NdaParagraphsStyled ==
    \A p \in Callers : (pc[p] = "done" /\ IsNDA(call[p].doc_type)) =>
        \A para \in TextParagraphs(doc[p].body) :
            CarriesStyle(para, ChainEntry(style_json[p], "Signature"))

\* C28 as claimed: in both layouts every paragraph holding party text or the
\* Date line carries the font, size, alignment and spacing of the resolved
\* signature style once add_signature_section has returned.
C28_SignatureStyleFormatsText ==
    \A p \in Callers : pc[p] = "done" =>
        \A para \in TextParagraphs(doc[p].body) :
            CarriesStyle(para, ChainEntry(style_json[p], "Signature"))

\* no registration has started after the caller's
Latest(p) == p = 2 \/ pc[2] = "idle"

\* C27: when register_new_template has copied the template and written its
\* styles, load_style_json of that document type returns, from the style
\* file, the profile extracted from the template given, with the five
\* essential names; a registration after an earlier one of the same type
\* gives the later template's profile; a registration that ended at the
\* missing path or with an exception left the style file as it was.
C27_RegisterThenLoadRoundTrips ==
    \A p \in Callers : Loaded(p) =>
        LET given == fs0[p][call[p].template_path]
            style_path == StylePath(call[p].doc_type)
        IN  /\ call[p].outcome = "registered" =>
                /\ source[p] = "style_file"
                /\ style_json[p] = ExtractedProfile(given)
                /\ EssentialNames \subseteq DOMAIN style_json[p]
                /\ Latest(p) => fs[TemplateDest(call[p].doc_type)] = given
            /\ call[p].outcome = "registered" <=> Opens(fs0[p], call[p].template_path)
                                                  /\ call[p].template_path #
                                                         TemplateDest(call[p].doc_type)
            /\ (call[p].outcome # "registered" /\ Latest(p)) =>
                   fs[style_path] = fs0[p][style_path]

\* the user template registered for NDA and loaded, then the Georgia template
\* registered for NDA and loaded: two different profiles, each its template's
C27_Witness ==
    /\ Loaded(1) /\ Loaded(2)
    /\ call[1].outcome = "registered" /\ call[2].outcome = "registered"
    /\ call[1].doc_type = "NDA" /\ call[2].doc_type = "NDA"
    /\ call[1].template_path = "user.docx"
    /\ call[2].template_path = "georgia.docx"
    /\ style_json[1]["Normal"].font = "Default"
    /\ style_json[2]["Normal"].font = "Georgia"
    /\ style_json[2] = fs[StylePath("NDA")].value
    /\ source[2] = "style_file"

\* C29: the temp template written in step 6 is there when the build step
\* starts, and once the call has left the build step, by the return or by an
\* exception, no file is left at its path; the build step was entered and
\* nothing else of the store was taken away with it.
C29_TempTemplateNeverLeaks ==
    \A p \in Callers :
        /\ pc[p] = "build" =>
               /\ call[p].template_path = TmpTemplatePath(p)
               /\ Exists(fs, call[p].template_path)
        /\ (pc[p] \in {"returned", "raised"} /\ call[p].template_path # NoRef) =>
               /\ ~Exists(fs, call[p].template_path)
               /\ "build_document_from_json_content" \in Range(call[p].calls)

\* an uploaded template was written to the temp file, the build step ended
\* with an exception and the temp file is gone
C29_Witness ==
    \E p \in Callers :
        /\ pc[p] = "raised"
        /\ "template_path" \in DOMAIN call[p]
        /\ call[p].template_path = TmpTemplatePath(p)
        /\ call[p].template_file_content = UserTemplate
        /\ call[p].template_filename = "upload.docx"
        /\ call[p].failed = "TypeError"
        /\ fs[TmpTemplatePath(p)] = Absent

\* C30, as far as the code lets it be stated: a request answered with a
\* download URL finds, at that URL, the document built from its own content
\* on its own template.
C30_AnsweredRequestServesItsDocument ==
    \A p \in Callers :
        (call[p] # NoCall /\ call[p].status = 200) =>
            /\ call[p].download_url = DownloadPath(p, call[p].final_filename)
            /\ Exists(fs, call[p].download_url)
            /\ fs[call[p].download_url].body =
                   Assemble(<<>>, call[p].validated_content,
                            IF HasBytes(call[p].template_file_content)
                            THEN ExtractedProfile(call[p].template_file_content)
                            ELSE get_default_styles,
                            call[p].doc_type)

\* no request reaches the write of the build or the move of line 182: every
\* answer is a 400 without a download URL, and no file is ever at an output
\* path or at a download path
NoRequestReachesTheMove ==
    \A p \in Callers :
        call[p] # NoCall =>
            /\ call[p].status \in {0, 400}
            /\ call[p].download_url = ""
            /\ call[p].generated_file = NoneValue
            /\ \A f \in ServiceFilenames :
                   /\ ~Exists(fs, ServiceOutPath(f))
                   /\ ~Exists(fs, DownloadPath(p, f))

\* one request is answered while the other waits for its upload at line 159
AnsweredDuringAwait ==
    \E p, q \in Callers :
        /\ pc[p] = "read_upload"
        /\ pc[q] = "responded"
        /\ call[q].calls # <<>>

====
